---- MODULE Spec2Model ----
(***************************************************************************)
(* Model of the 911 dispatch voice agent backend (src/backend):            *)
(*   - voice_agent.py   DeepgramVoiceAgent: the bridge between the Twilio   *)
(*                      media websocket and the Deepgram agent websocket    *)
(*   - emergency_classifier.py  EmergencyClassifier.classify_call           *)
(*   - server.py        process_speech and the routing of a call            *)
(*                                                                          *)
(* Byte strings and base64 texts are kept run-length encoded: a value is a  *)
(* sequence of runs [v |-> symbol, n |-> count], adjacent runs never carry  *)
(* the same symbol and no run is empty, so two values are equal exactly     *)
(* when the strings they stand for are equal.  The operators below are the  *)
(* Python operations on the strings (len, extend, [:k], [k:],               *)
(* base64.b64encode, base64.b64decode) computed on that encoding.           *)
(***************************************************************************)
EXTENDS Integers, Sequences, FiniteSets, TLC

(***************************************************************************)
(* Bounds of the model                                                      *)
(***************************************************************************)
\* number of envelopes the transport delivers during one call
MaxTwilioMsgs == 3
\* number of messages the backend delivers during one call
MaxStsMsgs == 2

(***************************************************************************)
(* Run-length encoded strings                                               *)
(***************************************************************************)
RECURSIVE RLen(_)
RLen(s) == IF s = <<>> THEN 0 ELSE s[1].n + RLen(Tail(s))

RCat(s, t) ==
    IF s = <<>> THEN t
    ELSE IF t = <<>> THEN s
    ELSE IF s[Len(s)].v = t[1].v
         THEN SubSeq(s, 1, Len(s) - 1)
              \o <<[v |-> t[1].v, n |-> s[Len(s)].n + t[1].n]>>
              \o Tail(t)
         ELSE s \o t

RECURSIVE RTake(_, _)
RTake(s, k) ==
    IF k <= 0 \/ s = <<>> THEN <<>>
    ELSE IF s[1].n <= k THEN <<s[1]>> \o RTake(Tail(s), k - s[1].n)
    ELSE <<[v |-> s[1].v, n |-> k]>>

RECURSIVE RDrop(_, _)
RDrop(s, k) ==
    IF k <= 0 \/ s = <<>> THEN s
    ELSE IF s[1].n <= k THEN RDrop(Tail(s), k - s[1].n)
    ELSE <<[v |-> s[1].v, n |-> s[1].n - k]>> \o Tail(s)

\* the run-length encoding of an explicit sequence of symbols
RECURSIVE FromSeq(_)
FromSeq(q) == IF q = <<>> THEN <<>> ELSE RCat(<<[v |-> q[1], n |-> 1]>>, FromSeq(Tail(q)))

\* the explicit sequence of symbols of a (short) encoded string
RECURSIVE Explode(_)
Explode(s) ==
    IF s = <<>> THEN <<>>
    ELSE IF s[1].n = 1 THEN <<s[1].v>> \o Explode(Tail(s))
    ELSE <<s[1].v>> \o Explode(<<[v |-> s[1].v, n |-> s[1].n - 1]>> \o Tail(s))

\* k copies of the explicit sequence q
RECURSIVE Repeat(_, _)
Repeat(q, k) ==
    IF k <= 0 \/ q = <<>> THEN <<>>
    ELSE IF \A i \in 1..Len(q) : q[i] = q[1] THEN <<[v |-> q[1], n |-> k * Len(q)]>>
    ELSE RCat(FromSeq(q), Repeat(q, k - 1))

\* a string of n bytes of value b
Bytes(b, n) == IF n = 0 THEN <<>> ELSE <<[v |-> b, n |-> n]>>

(***************************************************************************)
(* base64 (RFC 4648 alphabet): a text is a string over the sextets 0..63,   *)
(* the padding character '=' and characters outside the alphabet            *)
(***************************************************************************)
Pad == 64
Junk == 65

\* the characters of one group of 1, 2 or 3 bytes
EncodeGroup(g) ==
    IF Len(g) = 3
    THEN <<g[1] \div 4, (g[1] % 4) * 16 + g[2] \div 16, (g[2] % 16) * 4 + g[3] \div 64, g[3] % 64>>
    ELSE IF Len(g) = 2
    THEN <<g[1] \div 4, (g[1] % 4) * 16 + g[2] \div 16, (g[2] % 16) * 4, Pad>>
    ELSE <<g[1] \div 4, (g[1] % 4) * 16, Pad, Pad>>

\* the bytes of the first Len(q) - 1 full bytes held by 2, 3 or 4 sextets
DecodeGroup(q) ==
    IF Len(q) = 4
    THEN <<q[1] * 4 + q[2] \div 16, (q[2] % 16) * 16 + q[3] \div 4, (q[3] % 4) * 64 + q[4]>>
    ELSE IF Len(q) = 3
    THEN <<q[1] * 4 + q[2] \div 16, (q[2] % 16) * 16 + q[3] \div 4>>
    ELSE <<q[1] * 4 + q[2] \div 16>>

\* base64.b64encode(bytes).decode("ascii")
RECURSIVE b64encode(_)
b64encode(s) ==
    IF s = <<>> THEN <<>>
    ELSE IF s[1].n >= 3
    THEN LET k == s[1].n \div 3
         IN  RCat(Repeat(EncodeGroup(<<s[1].v, s[1].v, s[1].v>>), k), b64encode(RDrop(s, 3 * k)))
    ELSE RCat(FromSeq(EncodeGroup(Explode(RTake(s, 3)))), b64encode(RDrop(s, 3)))

\* binascii.a2b_base64 in its default non-strict mode, one character at a
\* time: characters outside the alphabet are skipped, a padding character
\* counts only from the third position of a group on and ends the data when it
\* completes the group, and data that ends inside a group is an error.
\* Result: [ok |-> FALSE] for binascii.Error, else [ok |-> TRUE, bytes |-> b].
RECURSIVE DecodeFrom(_, _, _, _)
DecodeFrom(t, pending, pads, out) ==
    IF t = <<>>
    THEN IF pending = <<>> THEN [ok |-> TRUE, bytes |-> out] ELSE [ok |-> FALSE, bytes |-> <<>>]
    ELSE IF t[1].v = Junk THEN DecodeFrom(Tail(t), pending, pads, out)
    ELSE IF t[1].v = Pad
    THEN IF Len(pending) >= 2
         THEN IF Len(pending) + pads + 1 >= 4
              THEN [ok |-> TRUE, bytes |-> RCat(out, FromSeq(DecodeGroup(pending)))]
              ELSE DecodeFrom(RDrop(t, 1), pending, pads + 1, out)
         ELSE DecodeFrom(RDrop(t, 1), pending, pads, out)
    ELSE IF pending = <<>> /\ t[1].n >= 4
    THEN LET k == t[1].n \div 4
             c == t[1].v
         IN  DecodeFrom(RDrop(t, 4 * k), <<>>, 0,
                        RCat(out, Repeat(DecodeGroup(<<c, c, c, c>>), k)))
    ELSE IF Len(pending) = 3
    THEN DecodeFrom(RDrop(t, 1), <<>>, 0,
                    RCat(out, FromSeq(DecodeGroup(Append(pending, t[1].v)))))
    ELSE DecodeFrom(RDrop(t, 1), Append(pending, t[1].v), 0, out)

b64decode(t) == DecodeFrom(t, <<>>, 0, <<>>)

(***************************************************************************)
(* Text: a string is a sequence of one-character strings                    *)
(***************************************************************************)
Whitespace == {" ", "\n", "\t"}
\* the character U+0060, which a TLA+ string cannot hold
Backtick == "U+0060"

RECURSIVE DropWhile(_, _)
DropWhile(text, class) ==
    IF text # <<>> /\ text[1] \in class THEN DropWhile(Tail(text), class) ELSE text

\* re.sub(r'<class>+', repl, text): every maximal run of characters of the
\* class is replaced by repl
RECURSIVE ReSubRuns(_, _, _)
ReSubRuns(text, class, repl) ==
    IF text = <<>> THEN <<>>
    ELSE IF text[1] \in class
    THEN repl \o ReSubRuns(DropWhile(text, class), class, repl)
    ELSE <<text[1]>> \o ReSubRuns(Tail(text), class, repl)

RECURSIVE Reverse(_)
Reverse(text) == IF text = <<>> THEN <<>> ELSE Append(Reverse(Tail(text)), text[1])

\* str.strip()
Strip(text) == Reverse(DropWhile(Reverse(DropWhile(text, Whitespace)), Whitespace))

\* _clean_voice_text trimming the text before it removes the symbols
CleanStripFirst(text) ==
    LET t0 == Strip(text)
        t1 == ReSubRuns(t0, {"*"}, <<>>)
        t2 == ReSubRuns(t1, {"_"}, <<>>)
        t3 == ReSubRuns(t2, {Backtick}, <<>>)
        t4 == ReSubRuns(t3, {"#"}, <<>>)
        t5 == ReSubRuns(t4, {"[", "]"}, <<>>)
        t6 == ReSubRuns(t5, {"(", ")"}, <<>>)
        t7 == ReSubRuns(t6, {"{", "}"}, <<>>)
        t8 == ReSubRuns(t7, {"\n"}, <<" ">>)
    IN  ReSubRuns(t8, Whitespace, <<" ">>)

\* DeepgramVoiceAgent._clean_voice_text
_clean_voice_text(text) ==
    LET t1 == ReSubRuns(text, {"*"}, <<>>)
        t2 == ReSubRuns(t1, {"_"}, <<>>)
        t3 == ReSubRuns(t2, {Backtick}, <<>>)
        t4 == ReSubRuns(t3, {"#"}, <<>>)
        t5 == ReSubRuns(t4, {"[", "]"}, <<>>)
        t6 == ReSubRuns(t5, {"(", ")"}, <<>>)
        t7 == ReSubRuns(t6, {"{", "}"}, <<>>)
        t8 == ReSubRuns(t7, {"\n"}, <<" ">>)
        t9 == ReSubRuns(t8, Whitespace, <<" ">>)
    IN  Strip(t9)

(***************************************************************************)
(* State                                                                    *)
(***************************************************************************)
VARIABLES
    \* DeepgramVoiceAgent (one instance per media websocket)
    call_transcript,        \* self.call_transcript, None or a string
    conversation_history,   \* self.conversation_history
    \* twilio_handler
    handler_pc,             \* "greeting", "connect", "relay", "closed"
    greeting_message,       \* the local greeting_message, None until generated
    conversation_context,   \* the local conversation_context, None until computed
    audio_queue,            \* asyncio.Queue of chunks
    streamsid_queue,        \* asyncio.Queue of stream ids
    \* the three relay tasks: "idle" (not started), then running, then "done"
    sender_pc,              \* _sts_sender: "idle", "run", "done"
    receiver_pc,            \* _sts_receiver: "idle", "await_sid", "loop", "done"
    streamsid,              \* the local streamsid of _sts_receiver
    twilio_pc,              \* _twilio_receiver: "idle", "loop", "done"
    inbuffer,               \* the local inbuffer of _twilio_receiver
    \* twilio_ws, the transport websocket
    twilio_state,           \* "open", "disconnected" (by the peer), "closed" (by us)
    twilio_count,           \* envelopes delivered by the transport so far
    twilio_message,         \* the message _twilio_receiver read last, None at first
    twilio_out,             \* envelopes sent to the transport, in order
    \* sts_ws, the backend websocket
    sts_state,              \* "unconnected", "open", "closed"
    sts_inbox,              \* messages received from the backend, not yet read
    sts_count,              \* messages delivered by the backend so far
    sts_out,                \* messages sent to the backend, in order
    \* history of the call, recorded where the code acts
    enqueued,               \* every chunk put on audio_queue, in order
    received,               \* all decoded inbound-track payloads, concatenated
    start_sids,             \* the streamSid of every 'start' envelope read
    sts_read,               \* every backend message read by _sts_receiver
    early,                  \* a backend message arrived before the id was known
    greeting_request,       \* the request made to the reasoning model for the
                            \* greeting and its outcome, None if none was made
    \* server.py process_speech
    requests,               \* number of webhook requests served
    last_request,           \* the inputs of the last request
    called,                 \* the services called while serving it
    classification_result,  \* the result of classify_call, None if not called
    response,               \* the TwiML returned for it
    callers,                \* the rows of the "callers" table
    environ,                \* os.environ of the server process
    \* server.py, the media websockets served at the same time
    heap,                   \* the objects allocated for them, by identity
    connections,            \* per websocket: the objects it uses and its messages
    startup,                \* server.py run as a script: where it is, its exit status
    \* main.py, /callers/stream
    db_rows,                \* the ids of the rows of the table, in the order of created_at
    last_seen_id,           \* event_stream's local
    stream_pc,              \* where event_stream is
    stream_events           \* the events it has yielded

bridge_vars == <<call_transcript, conversation_history, handler_pc, greeting_message,
                 conversation_context, greeting_request,
                 audio_queue, streamsid_queue, sender_pc, receiver_pc, streamsid,
                 twilio_pc, inbuffer, twilio_state, twilio_count, twilio_message, twilio_out,
                 sts_state, sts_inbox, sts_count, sts_out,
                 enqueued, received, start_sids, sts_read, early>>
speech_vars == <<requests, last_request, called, classification_result, response, callers, environ,
                 heap, connections, startup, db_rows, last_seen_id, stream_pc, stream_events>>
stream_vars == <<db_rows, last_seen_id, stream_pc, stream_events>>
vars == <<bridge_vars, speech_vars>>

None == [none |-> TRUE]
Str(text) == [str |-> text]
IsNone(x) == x = None

(***************************************************************************)
(* Python values                                                            *)
(***************************************************************************)
\* truthiness of an optional string: None and '' are false
Truthy(x) == ~IsNone(x) /\ x.str # <<>>

\* the first k elements of a list
FirstN(list, k) == IF Len(list) <= k THEN list ELSE SubSeq(list, 1, k)

\* the last k elements of a list: list[-k:]
LastN(list, k) == IF Len(list) <= k THEN list ELSE SubSeq(list, Len(list) - k + 1, Len(list))

(***************************************************************************)
(* voice_agent.py: greeting and configuration                               *)
(***************************************************************************)
DEFAULT_GREETING == <<"H", "e", "l", "l", "o", ",", " ", "h", "o", "w", " ", "c", "a", "n", " ", "I", " ", "h", "e", "l", "p", " ", "w", "i", "t", "h", " ", "y", "o", "u", "r", " ", "e", "m", "e", "r", "g", "e", "n", "c", "y", "?">>
NO_DESCRIPTION == <<"N", "o", " ", "i", "n", "i", "t", "i", "a", "l", " ", "d", "e", "s", "c", "r", "i", "p", "t", "i", "o", "n", " ", "p", "r", "o", "v", "i", "d", "e", "d">>

\* generate_personalized_greeting without the default for a missing content
GreetingNoFallback(completion) ==
    IF "raised" \in DOMAIN completion THEN DEFAULT_GREETING
    ELSE IF IsNone(completion.content) THEN <<>>
    ELSE Strip(completion.content.str)

\* groq_inference.generate_personalized_greeting; completion is the outcome of
\* client.chat.completions.create: [raised |-> TRUE], or [content |-> None]
\* or [content |-> Str(text)]
generate_personalized_greeting(completion) ==
    IF "raised" \in DOMAIN completion THEN DEFAULT_GREETING
    ELSE IF IsNone(completion.content) THEN DEFAULT_GREETING
    ELSE Strip(completion.content.str)

\* _generate_personalized_greeting without the sanitizer
GreetingUncleaned(transcript, completion) ==
    IF ~Truthy(transcript) THEN DEFAULT_GREETING
    ELSE generate_personalized_greeting(completion)

\* DeepgramVoiceAgent._generate_personalized_greeting
_generate_personalized_greeting(transcript, completion) ==
    IF ~Truthy(transcript) THEN DEFAULT_GREETING
    ELSE _clean_voice_text(generate_personalized_greeting(completion))

\* DeepgramVoiceAgent._get_conversation_context
_get_conversation_context(transcript, history) ==
    (IF Truthy(transcript)
     THEN <<[role |-> "user",
             content |-> <<"I", "n", "i", "t", "i", "a", "l", " ", "e", "m", "e", "r", "g", "e", "n", "c", "y", " ", "d", "e", "s", "c", "r", "i", "p", "t", "i", "o", "n", ":", " ">> \o _clean_voice_text(transcript.str)]>>
     ELSE <<>>)
    \o LastN(history, 10)

\* the Settings message built by twilio_handler
config_message(transcript, greeting) ==
    [type |-> "Settings",
     audio |-> [input |-> [encoding |-> "mulaw", sample_rate |-> 8000],
                output |-> [encoding |-> "mulaw", sample_rate |-> 8000, container |-> "none"]],
     agent |-> [language |-> "en",
                listen |-> [provider |-> [type |-> "deepgram", model |-> "nova-3"]],
                think |-> [provider |-> [type |-> "open_ai", model |-> "gpt-4o-mini"],
                           prompt |-> [template |-> "emergency dispatch assistant",
                                       described |-> IF Truthy(transcript) THEN transcript.str
                                                     ELSE NO_DESCRIPTION]],
                speak |-> [provider |-> [type |-> "deepgram", model |-> "aura-2-thalia-en"]],
                greeting |-> greeting]]

\* websocket frames.  A text frame is described by what json.loads makes of
\* it: an object (Json), valid JSON that is no object, or no JSON at all;
\* json.dumps of a dict is the Json frame of that dict.
Json(data) == [frame |-> "text", json |-> "object", data |-> data]
JsonOther == [frame |-> "text", json |-> "other"]
NotJson == [frame |-> "text", json |-> "invalid"]
BinaryFrame(bytes) == [frame |-> "binary", bytes |-> bytes]

\* twilio_handler, lines 98-100: the greeting is generated
GenerateGreeting(completion) ==
    /\ handler_pc = "greeting"
    /\ greeting_message' = Str(_generate_personalized_greeting(call_transcript, completion))
    /\ greeting_request' = IF Truthy(call_transcript)
                           THEN [transcript |-> call_transcript.str, completion |-> completion]
                           ELSE None
    /\ handler_pc' = "connect"
    /\ UNCHANGED <<call_transcript, conversation_history, conversation_context, audio_queue, streamsid_queue,
                   sender_pc, receiver_pc, streamsid, twilio_pc, inbuffer,
                   twilio_state, twilio_count, twilio_message, twilio_out,
                   sts_state, sts_inbox, sts_count, sts_out,
                   enqueued, received, start_sids, sts_read, early>>
    /\ UNCHANGED speech_vars

\* ConfigureBackend with a context read that truncates the stored turns
ConfigureBackendTruncating ==
    /\ handler_pc = "connect"
    /\ conversation_history' = LastN(conversation_history, 10)
    /\ conversation_context' = _get_conversation_context(call_transcript, conversation_history)
    /\ sts_state' = "open"
    /\ sts_out' = Append(sts_out, Json(config_message(call_transcript, greeting_message.str)))
    /\ sender_pc' = "run"
    /\ receiver_pc' = "await_sid"
    /\ twilio_pc' = "loop"
    /\ handler_pc' = "relay"
    /\ UNCHANGED <<call_transcript, greeting_message, greeting_request,
                   audio_queue, streamsid_queue, streamsid, inbuffer,
                   twilio_state, twilio_count, twilio_message, twilio_out, sts_inbox, sts_count,
                   enqueued, received, start_sids, sts_read, early>>
    /\ UNCHANGED speech_vars

\* ConfigureBackend sending the Settings message twice
ConfigureBackendTwice ==
    /\ handler_pc = "connect"
    /\ conversation_context' = _get_conversation_context(call_transcript, conversation_history)
    /\ sts_state' = "open"
    /\ sts_out' = sts_out \o <<Json(config_message(call_transcript, greeting_message.str)),
                            Json(config_message(call_transcript, greeting_message.str))>>
    /\ sender_pc' = "run"
    /\ receiver_pc' = "await_sid"
    /\ twilio_pc' = "loop"
    /\ handler_pc' = "relay"
    /\ UNCHANGED <<call_transcript, conversation_history, greeting_message, greeting_request,
                   audio_queue, streamsid_queue, streamsid, inbuffer,
                   twilio_state, twilio_count, twilio_message, twilio_out, sts_inbox, sts_count,
                   enqueued, received, start_sids, sts_read, early>>
    /\ UNCHANGED speech_vars

\* twilio_handler, lines 102-166: the backend connection is opened, the
\* Settings message is sent and the three relay tasks are started
ConfigureBackend ==
    /\ handler_pc = "connect"
    /\ conversation_context' = _get_conversation_context(call_transcript, conversation_history)
    /\ sts_state' = "open"
    /\ sts_out' = Append(sts_out, Json(config_message(call_transcript, greeting_message.str)))
    /\ sender_pc' = "run"
    /\ receiver_pc' = "await_sid"
    /\ twilio_pc' = "loop"
    /\ handler_pc' = "relay"
    /\ UNCHANGED <<call_transcript, conversation_history, greeting_message, greeting_request,
                   audio_queue, streamsid_queue, streamsid, inbuffer,
                   twilio_state, twilio_count, twilio_message, twilio_out, sts_inbox, sts_count,
                   enqueued, received, start_sids, sts_read, early>>
    /\ UNCHANGED speech_vars

\* HandlerClose with asyncio.wait returning when the first task is done
HandlerCloseFirst ==
    /\ handler_pc = "relay"
    /\ sender_pc = "done" \/ receiver_pc = "done" \/ twilio_pc = "done"
    /\ twilio_state' = IF twilio_state = "open" THEN "closed" ELSE twilio_state
    /\ sts_state' = "closed"
    /\ handler_pc' = "closed"
    /\ UNCHANGED <<call_transcript, conversation_history, greeting_message, conversation_context, greeting_request,
                   audio_queue, streamsid_queue, sender_pc, receiver_pc, streamsid,
                   twilio_pc, inbuffer, twilio_count, twilio_message, twilio_out,
                   sts_inbox, sts_count, sts_out,
                   enqueued, received, start_sids, sts_read, early>>
    /\ UNCHANGED speech_vars

\* twilio_handler, lines 162-168: asyncio.wait returns once all three tasks
\* are done (return_when defaults to ALL_COMPLETED); the transport is closed
\* and leaving the 'async with' block closes the backend connection
HandlerClose ==
    /\ handler_pc = "relay"
    /\ sender_pc = "done" /\ receiver_pc = "done" /\ twilio_pc = "done"
    /\ twilio_state' = IF twilio_state = "open" THEN "closed" ELSE twilio_state
    /\ sts_state' = "closed"
    /\ handler_pc' = "closed"
    /\ UNCHANGED <<call_transcript, conversation_history, greeting_message, conversation_context, greeting_request,
                   audio_queue, streamsid_queue, sender_pc, receiver_pc, streamsid,
                   twilio_pc, inbuffer, twilio_count, twilio_message, twilio_out,
                   sts_inbox, sts_count, sts_out,
                   enqueued, received, start_sids, sts_read, early>>
    /\ UNCHANGED speech_vars

(***************************************************************************)
(* voice_agent.py: the three relay loops                                    *)
(***************************************************************************)
BUFFER_SIZE == 20 * 160

\* Drain with the remainder flushed as a last, shorter chunk
RECURSIVE DrainFlush(_)
DrainFlush(buf) ==
    IF RLen(buf) >= BUFFER_SIZE
    THEN LET r == DrainFlush(RDrop(buf, BUFFER_SIZE))
         IN  [chunks |-> <<RTake(buf, BUFFER_SIZE)>> \o r.chunks, rest |-> r.rest]
    ELSE IF buf # <<>> THEN [chunks |-> <<buf>>, rest |-> <<>>]
    ELSE [chunks |-> <<>>, rest |-> buf]

\* Drain with the buffer cut one byte too far after each chunk
RECURSIVE DrainSkip(_)
DrainSkip(buf) ==
    IF RLen(buf) >= BUFFER_SIZE
    THEN LET r == DrainSkip(RDrop(buf, BUFFER_SIZE + 1))
         IN  [chunks |-> <<RTake(buf, BUFFER_SIZE)>> \o r.chunks, rest |-> r.rest]
    ELSE [chunks |-> <<>>, rest |-> buf]

\* Drain with 'if' in place of 'while': at most one chunk for each envelope
DrainOnce(buf) ==
    IF RLen(buf) >= BUFFER_SIZE
    THEN [chunks |-> <<RTake(buf, BUFFER_SIZE)>>, rest |-> RDrop(buf, BUFFER_SIZE)]
    ELSE [chunks |-> <<>>, rest |-> buf]

\* _twilio_receiver, lines 241-244: the full chunks at the front of the
\* buffer, in order, and what is left of the buffer
RECURSIVE Drain(_)
Drain(buf) ==
    IF RLen(buf) >= BUFFER_SIZE
    THEN LET r == Drain(RDrop(buf, BUFFER_SIZE))
         IN  [chunks |-> <<RTake(buf, BUFFER_SIZE)>> \o r.chunks, rest |-> r.rest]
    ELSE [chunks |-> <<>>, rest |-> buf]

\* _twilio_receiver, lines 223-238: what one transport message does before the
\* buffered audio is looked at; json.loads raises on NotJson and data["event"]
\* raises on JsonOther and on an object without that key.
\*   brk: the loop ends (break, or an exception caught by 'except: break')
\*   cont: 'continue', the buffer is not looked at
\*   sid: the stream ids put on streamsid_queue;  ext: the bytes appended
Outcome(brk, cont, sid, ext) == [brk |-> brk, cont |-> cont, sid |-> sid, ext |-> ext]
Break == Outcome(TRUE, FALSE, <<>>, <<>>)

\* HandleEnvelope ending the loop on an event it does not know
HandleEnvelopeStrict(message) ==
    IF message.json # "object" THEN Break
    ELSE LET data == message.data IN
    IF "event" \notin DOMAIN data THEN Break
    ELSE IF data.event = "start"
    THEN IF "start" \in DOMAIN data /\ "streamSid" \in DOMAIN data.start
         THEN Outcome(FALSE, FALSE, <<data.start.streamSid>>, <<>>)
         ELSE Break
    ELSE IF data.event = "connected" THEN Outcome(FALSE, TRUE, <<>>, <<>>)
    ELSE IF data.event = "media"
    THEN IF "media" \notin DOMAIN data THEN Break
         ELSE IF "payload" \notin DOMAIN data.media THEN Break
         ELSE LET chunk == b64decode(data.media.payload) IN
              IF ~chunk.ok THEN Break
              ELSE IF "track" \notin DOMAIN data.media THEN Break
              ELSE IF data.media.track = "inbound"
                   THEN Outcome(FALSE, FALSE, <<>>, chunk.bytes)
                   ELSE Outcome(FALSE, FALSE, <<>>, <<>>)
    ELSE Break

\* HandleEnvelope buffering the audio of every track
HandleEnvelopeAnyTrack(message) ==
    IF message.json # "object" THEN Break
    ELSE LET data == message.data IN
    IF "event" \notin DOMAIN data THEN Break
    ELSE IF data.event = "start"
    THEN IF "start" \in DOMAIN data /\ "streamSid" \in DOMAIN data.start
         THEN Outcome(FALSE, FALSE, <<data.start.streamSid>>, <<>>)
         ELSE Break
    ELSE IF data.event = "connected" THEN Outcome(FALSE, TRUE, <<>>, <<>>)
    ELSE IF data.event = "media"
    THEN IF "media" \notin DOMAIN data THEN Break
         ELSE IF "payload" \notin DOMAIN data.media THEN Break
         ELSE LET chunk == b64decode(data.media.payload) IN
              IF ~chunk.ok THEN Break
              ELSE IF "track" \notin DOMAIN data.media THEN Break
              ELSE Outcome(FALSE, FALSE, <<>>, chunk.bytes)
    ELSE IF data.event = "stop" THEN Break
    ELSE Outcome(FALSE, FALSE, <<>>, <<>>)

HandleEnvelope(message) ==
    IF message.json # "object" THEN Break
    ELSE LET data == message.data IN
    IF "event" \notin DOMAIN data THEN Break
    ELSE IF data.event = "start"
    THEN IF "start" \in DOMAIN data /\ "streamSid" \in DOMAIN data.start
         THEN Outcome(FALSE, FALSE, <<data.start.streamSid>>, <<>>)
         ELSE Break
    ELSE IF data.event = "connected" THEN Outcome(FALSE, TRUE, <<>>, <<>>)
    ELSE IF data.event = "media"
    THEN IF "media" \notin DOMAIN data THEN Break
         ELSE IF "payload" \notin DOMAIN data.media THEN Break
         ELSE LET chunk == b64decode(data.media.payload) IN
              IF ~chunk.ok THEN Break
              ELSE IF "track" \notin DOMAIN data.media THEN Break
              ELSE IF data.media.track = "inbound"
                   THEN Outcome(FALSE, FALSE, <<>>, chunk.bytes)
                   ELSE Outcome(FALSE, FALSE, <<>>, <<>>)
    ELSE IF data.event = "stop" THEN Break
    ELSE Outcome(FALSE, FALSE, <<>>, <<>>)

\* what a transport message carries for the caller's side of the call: the
\* decoded payload of a well-formed 'media' envelope of the inbound track
InboundAudio(message) ==
    IF /\ message.json = "object"
       /\ "event" \in DOMAIN message.data
       /\ message.data.event = "media"
       /\ "media" \in DOMAIN message.data
       /\ DOMAIN message.data.media = {"track", "payload"}
       /\ message.data.media.track = "inbound"
       /\ b64decode(message.data.media.payload).ok
    THEN b64decode(message.data.media.payload).bytes
    ELSE <<>>

\* _twilio_receiver flushing the buffer as a last chunk on 'stop'
TwilioReceiverFlushing(message) ==
    /\ twilio_pc = "loop"
    /\ twilio_state = "open"
    /\ twilio_count < MaxTwilioMsgs
    /\ twilio_count' = twilio_count + 1
    /\ twilio_message' = message
    /\ LET o == HandleEnvelope(message)
           d == Drain(RCat(inbuffer, o.ext))
       IN  /\ twilio_pc' = IF o.brk THEN "done" ELSE "loop"
           /\ streamsid_queue' = streamsid_queue \o o.sid
           /\ start_sids' = start_sids \o o.sid
           /\ received' = RCat(received, InboundAudio(message))
           /\ IF /\ message.json = "object"
                 /\ "event" \in DOMAIN message.data
                 /\ message.data.event = "stop"
                 /\ inbuffer # <<>>
              THEN /\ inbuffer' = <<>>
                   /\ audio_queue' = Append(audio_queue, inbuffer)
                   /\ enqueued' = Append(enqueued, inbuffer)
              ELSE IF o.brk \/ o.cont
              THEN UNCHANGED <<inbuffer, audio_queue, enqueued>>
              ELSE /\ inbuffer' = d.rest
                   /\ audio_queue' = audio_queue \o d.chunks
                   /\ enqueued' = enqueued \o d.chunks
    /\ UNCHANGED <<call_transcript, conversation_history, handler_pc, greeting_message, conversation_context, greeting_request,
                   sender_pc, receiver_pc, streamsid, twilio_state, twilio_out,
                   sts_state, sts_inbox, sts_count, sts_out, sts_read, early>>
    /\ UNCHANGED speech_vars

\* _twilio_receiver, lines 222-247: one iteration of the loop on a message
\* read from the transport
_twilio_receiver(message) ==
    /\ twilio_pc = "loop"
    /\ twilio_state = "open"
    /\ twilio_count < MaxTwilioMsgs
    /\ twilio_count' = twilio_count + 1
    /\ twilio_message' = message
    /\ LET o == HandleEnvelope(message)
           d == Drain(RCat(inbuffer, o.ext))
       IN  /\ twilio_pc' = IF o.brk THEN "done" ELSE "loop"
           /\ streamsid_queue' = streamsid_queue \o o.sid
           /\ start_sids' = start_sids \o o.sid
           /\ received' = RCat(received, InboundAudio(message))
           /\ IF o.brk \/ o.cont
              THEN UNCHANGED <<inbuffer, audio_queue, enqueued>>
              ELSE /\ inbuffer' = d.rest
                   /\ audio_queue' = audio_queue \o d.chunks
                   /\ enqueued' = enqueued \o d.chunks
    /\ UNCHANGED <<call_transcript, conversation_history, handler_pc, greeting_message, conversation_context, greeting_request,
                   sender_pc, receiver_pc, streamsid, twilio_state, twilio_out,
                   sts_state, sts_inbox, sts_count, sts_out, sts_read, early>>
    /\ UNCHANGED speech_vars

\* _twilio_receiver, line 222: the iteration over the transport ends when the
\* peer has disconnected (server.py, FastAPIWebSocketWrapper.__anext__)
TwilioReceiverEnd ==
    /\ twilio_pc = "loop"
    /\ twilio_state # "open"
    /\ twilio_pc' = "done"
    /\ UNCHANGED <<call_transcript, conversation_history, handler_pc, greeting_message, conversation_context, greeting_request,
                   audio_queue, streamsid_queue, sender_pc, receiver_pc, streamsid,
                   inbuffer, twilio_state, twilio_count, twilio_message, twilio_out,
                   sts_state, sts_inbox, sts_count, sts_out,
                   enqueued, received, start_sids, sts_read, early>>
    /\ UNCHANGED speech_vars

\* QueueGet taking the newest item
QueueGetNewest(queue) == queue[Len(queue)]

\* asyncio.Queue.get on a queue that is not empty: the item taken
QueueGet(queue) == Head(queue)

\* _sts_sender, lines 173-175: one iteration; sts_ws.send raises once the
\* backend connection is closed, which ends the task
_sts_sender ==
    /\ sender_pc = "run"
    /\ audio_queue # <<>>
    /\ LET chunk == QueueGet(audio_queue)
       IN  /\ audio_queue' = Tail(audio_queue)
           /\ IF sts_state = "open"
              THEN /\ sts_out' = Append(sts_out, BinaryFrame(chunk))
                   /\ UNCHANGED sender_pc
              ELSE /\ sender_pc' = "done"
                   /\ UNCHANGED sts_out
    /\ UNCHANGED <<call_transcript, conversation_history, handler_pc, greeting_message, conversation_context, greeting_request,
                   streamsid_queue, receiver_pc, streamsid, twilio_pc, inbuffer,
                   twilio_state, twilio_count, twilio_message, twilio_out, sts_state, sts_inbox, sts_count,
                   enqueued, received, start_sids, sts_read, early>>
    /\ UNCHANGED speech_vars

\* StreamSidGet not waiting for an id to be there
StreamSidGetNoWait ==
    /\ receiver_pc = "await_sid"
    /\ IF streamsid_queue # <<>>
       THEN /\ streamsid' = Head(streamsid_queue)
            /\ streamsid_queue' = Tail(streamsid_queue)
       ELSE UNCHANGED <<streamsid, streamsid_queue>>
    /\ receiver_pc' = "loop"
    /\ UNCHANGED <<call_transcript, conversation_history, handler_pc, greeting_message, conversation_context, greeting_request,
                   audio_queue, sender_pc, twilio_pc, inbuffer,
                   twilio_state, twilio_count, twilio_message, twilio_out,
                   sts_state, sts_inbox, sts_count, sts_out,
                   enqueued, received, start_sids, sts_read, early>>
    /\ UNCHANGED speech_vars

\* StreamSidGet taking the id of the latest 'start' envelope
StreamSidGetLatest ==
    /\ receiver_pc = "await_sid"
    /\ streamsid_queue # <<>>
    /\ streamsid' = streamsid_queue[Len(streamsid_queue)]
    /\ streamsid_queue' = <<>>
    /\ receiver_pc' = "loop"
    /\ UNCHANGED <<call_transcript, conversation_history, handler_pc, greeting_message, conversation_context, greeting_request,
                   audio_queue, sender_pc, twilio_pc, inbuffer,
                   twilio_state, twilio_count, twilio_message, twilio_out,
                   sts_state, sts_inbox, sts_count, sts_out,
                   enqueued, received, start_sids, sts_read, early>>
    /\ UNCHANGED speech_vars

\* _sts_receiver, line 181: the stream id is awaited before anything else
StreamSidGet ==
    /\ receiver_pc = "await_sid"
    /\ streamsid_queue # <<>>
    /\ streamsid' = QueueGet(streamsid_queue)
    /\ streamsid_queue' = Tail(streamsid_queue)
    /\ receiver_pc' = "loop"
    /\ UNCHANGED <<call_transcript, conversation_history, handler_pc, greeting_message, conversation_context, greeting_request,
                   audio_queue, sender_pc, twilio_pc, inbuffer,
                   twilio_state, twilio_count, twilio_message, twilio_out,
                   sts_state, sts_inbox, sts_count, sts_out,
                   enqueued, received, start_sids, sts_read, early>>
    /\ UNCHANGED speech_vars

\* _add_to_conversation_history keeping only the new entry
AddReplacing(history, role, content) ==
    <<[role |-> role, content |-> _clean_voice_text(content)]>>

\* _add_to_conversation_history without the sanitizer
AddUncleaned(history, role, content) ==
    Append(history, [role |-> role, content |-> content])

\* _add_to_conversation_history dropping a turn that is empty once sanitized
AddSkippingEmpty(history, role, content) ==
    IF _clean_voice_text(content) = <<>>
    THEN history
    ELSE Append(history, [role |-> role, content |-> _clean_voice_text(content)])

\* DeepgramVoiceAgent._add_to_conversation_history
_add_to_conversation_history(history, role, content) ==
    Append(history, [role |-> role, content |-> _clean_voice_text(content)])

\* dict.get(key, default)
Get(dict, key, default) == IF key \in DOMAIN dict THEN dict[key] ELSE default

clear_message(sid) == [event |-> "clear", streamSid |-> sid]
media_message(sid, message) ==
    [event |-> "media", streamSid |-> sid, media |-> [payload |-> b64encode(message)]]

\* Outbound without the barge-in branch
OutboundNoClear(message, sid) ==
    IF message.frame = "text" THEN <<>> ELSE <<Json(media_message(sid, message.bytes))>>

\* Outbound sending a 'clear' for every text message
OutboundClearAlways(message, sid) ==
    IF message.frame = "text"
    THEN <<Json(clear_message(sid))>>
    ELSE <<Json(media_message(sid, message.bytes))>>

\* _sts_receiver, lines 184-212: the envelopes one backend message makes the
\* loop send to the transport: a 'clear' for a UserStartedSpeaking event, a
\* 'media' for audio, nothing for any other text message
Outbound(message, sid) ==
    IF message.frame = "text"
    THEN IF message.json = "object" /\ Get(message.data, "type", "") = "UserStartedSpeaking"
         THEN <<Json(clear_message(sid))>>
         ELSE <<>>
    ELSE <<Json(media_message(sid, message.bytes))>>

\* _sts_receiver with the send of 'clear' outside the try block
StsReceiverClearFatal ==
    /\ receiver_pc = "loop"
    /\ sts_inbox # <<>>
    /\ LET message == Head(sts_inbox)
           decoded == message.data
           type == IF message.json = "object" THEN Get(decoded, "type", "") ELSE ""
       IN  /\ sts_inbox' = Tail(sts_inbox)
           /\ sts_read' = Append(sts_read, message)
           /\ IF message.frame = "text"
              THEN /\ twilio_out' = IF twilio_state = "open"
                                    THEN twilio_out \o Outbound(message, streamsid)
                                    ELSE twilio_out
                   /\ conversation_history' =
                          IF type = "ConversationText"
                          THEN LET role == Get(decoded, "role", "assistant")
                                   content == Get(decoded, "content", <<>>)
                               IN  IF content # <<>>
                                   THEN _add_to_conversation_history(conversation_history, role, content)
                                   ELSE conversation_history
                          ELSE conversation_history
                   /\ receiver_pc' = IF type = "UserStartedSpeaking" /\ twilio_state # "open"
                                     THEN "done" ELSE receiver_pc
              ELSE /\ IF twilio_state = "open"
                      THEN /\ twilio_out' = twilio_out \o Outbound(message, streamsid)
                           /\ UNCHANGED receiver_pc
                      ELSE /\ receiver_pc' = "done"
                           /\ UNCHANGED twilio_out
                   /\ UNCHANGED conversation_history
    /\ UNCHANGED <<call_transcript, handler_pc, greeting_message, conversation_context, greeting_request,
                   audio_queue, streamsid_queue, sender_pc, streamsid, twilio_pc, inbuffer,
                   twilio_state, twilio_count, twilio_message, sts_state, sts_count, sts_out,
                   enqueued, received, start_sids, early>>
    /\ UNCHANGED speech_vars

\* _sts_receiver, lines 183-212: one iteration on a message read from the
\* backend.  twilio_ws.send raises once the transport is no longer open: the
\* error is swallowed for a 'clear' (try/except around the text branch) and
\* ends the task for a 'media'.
_sts_receiver ==
    /\ receiver_pc = "loop"
    /\ sts_inbox # <<>>
    /\ LET message == Head(sts_inbox)
           decoded == message.data
           type == IF message.json = "object" THEN Get(decoded, "type", "") ELSE ""
       IN  /\ sts_inbox' = Tail(sts_inbox)
           /\ sts_read' = Append(sts_read, message)
           /\ IF message.frame = "text"
              THEN /\ twilio_out' = IF twilio_state = "open"
                                    THEN twilio_out \o Outbound(message, streamsid)
                                    ELSE twilio_out
                   /\ conversation_history' =
                          IF type = "ConversationText"
                          THEN LET role == Get(decoded, "role", "assistant")
                                   content == Get(decoded, "content", <<>>)
                               IN  IF content # <<>>
                                   THEN _add_to_conversation_history(conversation_history, role, content)
                                   ELSE conversation_history
                          ELSE conversation_history
                   /\ UNCHANGED receiver_pc
              ELSE /\ IF twilio_state = "open"
                      THEN /\ twilio_out' = twilio_out \o Outbound(message, streamsid)
                           /\ UNCHANGED receiver_pc
                      ELSE /\ receiver_pc' = "done"
                           /\ UNCHANGED twilio_out
                   /\ UNCHANGED conversation_history
    /\ UNCHANGED <<call_transcript, handler_pc, greeting_message, conversation_context, greeting_request,
                   audio_queue, streamsid_queue, sender_pc, streamsid, twilio_pc, inbuffer,
                   twilio_state, twilio_count, twilio_message, sts_state, sts_count, sts_out,
                   enqueued, received, start_sids, early>>
    /\ UNCHANGED speech_vars

\* _sts_receiver, line 183: the iteration over the backend ends when the
\* connection is closed and every message received before has been read
StsReceiverEnd ==
    /\ receiver_pc = "loop"
    /\ sts_inbox = <<>>
    /\ sts_state = "closed"
    /\ receiver_pc' = "done"
    /\ UNCHANGED <<call_transcript, conversation_history, handler_pc, greeting_message, conversation_context, greeting_request,
                   audio_queue, streamsid_queue, sender_pc, streamsid, twilio_pc, inbuffer,
                   twilio_state, twilio_count, twilio_message, twilio_out,
                   sts_state, sts_inbox, sts_count, sts_out,
                   enqueued, received, start_sids, sts_read, early>>
    /\ UNCHANGED speech_vars

(***************************************************************************)
(* The two peers                                                            *)
(***************************************************************************)
\* the backend delivers a message on the open connection
BackendDeliver(message) ==
    /\ sts_state = "open"
    /\ sts_count < MaxStsMsgs
    /\ sts_count' = sts_count + 1
    /\ sts_inbox' = Append(sts_inbox, message)
    /\ early' = (early \/ receiver_pc = "await_sid")
    /\ UNCHANGED <<call_transcript, conversation_history, handler_pc, greeting_message, conversation_context, greeting_request,
                   audio_queue, streamsid_queue, sender_pc, receiver_pc, streamsid,
                   twilio_pc, inbuffer, twilio_state, twilio_count, twilio_message, twilio_out,
                   sts_state, sts_out, enqueued, received, start_sids, sts_read>>
    /\ UNCHANGED speech_vars

\* the backend closes the connection
BackendClose ==
    /\ sts_state = "open"
    /\ sts_state' = "closed"
    /\ UNCHANGED <<call_transcript, conversation_history, handler_pc, greeting_message, conversation_context, greeting_request,
                   audio_queue, streamsid_queue, sender_pc, receiver_pc, streamsid,
                   twilio_pc, inbuffer, twilio_state, twilio_count, twilio_message, twilio_out,
                   sts_inbox, sts_count, sts_out,
                   enqueued, received, start_sids, sts_read, early>>
    /\ UNCHANGED speech_vars

\* the transport disconnects (the caller hangs up)
TwilioDisconnect ==
    /\ twilio_state = "open"
    /\ twilio_state' = "disconnected"
    /\ UNCHANGED <<call_transcript, conversation_history, handler_pc, greeting_message, conversation_context, greeting_request,
                   audio_queue, streamsid_queue, sender_pc, receiver_pc, streamsid,
                   twilio_pc, inbuffer, twilio_count, twilio_message, twilio_out,
                   sts_state, sts_inbox, sts_count, sts_out,
                   enqueued, received, start_sids, sts_read, early>>
    /\ UNCHANGED speech_vars

(***************************************************************************)
(* emergency_classifier.py and groq_inference                               *)
(***************************************************************************)
LowerCase == <<"a", "b", "c", "d", "e", "f", "g", "h", "i", "j", "k", "l", "m", "n", "o", "p", "q", "r", "s", "t", "u", "v", "w", "x", "y", "z">>
UpperCase == <<"A", "B", "C", "D", "E", "F", "G", "H", "I", "J", "K", "L", "M", "N", "O", "P", "Q", "R", "S", "T", "U", "V", "W", "X", "Y", "Z">>

UpperChar(c) ==
    IF \E i \in 1..26 : LowerCase[i] = c
    THEN UpperCase[CHOOSE i \in 1..26 : LowerCase[i] = c]
    ELSE c

\* str.upper()
Upper(text) == [i \in 1..Len(text) |-> UpperChar(text[i])]

EMERGENCY == <<"E", "M", "E", "R", "G", "E", "N", "C", "Y">>
NON_EMERGENCY == <<"N", "O", "N", "_", "E", "M", "E", "R", "G", "E", "N", "C", "Y">>
CRITICAL == <<"C", "R", "I", "T", "I", "C", "A", "L">>
HIGH == <<"H", "I", "G", "H">>
MEDIUM == <<"M", "E", "D", "I", "U", "M">>
LOW == <<"L", "O", "W">>
ERROR_NO_CONTENT == <<"E", "R", "R", "O", "R", ":", " ", "N", "o", " ", "c", "o", "n", "t", "e", "n", "t", " ", "r", "e", "t", "u", "r", "n", "e", "d">>

\* The outcome of a call of the reasoning model: [raised |-> TRUE] when the
\* call raises, else [content |-> c] with c the content of the reply, None or
\* a string.
Raised == [raised |-> TRUE]
Content(c) == [content |-> c]
Returned(v) == [value |-> v]
HasRaised(r) == "raised" \in DOMAIN r

\* classify_call comparing the reply as it came, neither trimmed nor
\* upper-cased
ClassifyAsReplied(completion) ==
    IF HasRaised(completion) \/ IsNone(completion.content)
    THEN [is_emergency |-> TRUE, classification |-> EMERGENCY, confidence |-> "low", error |-> TRUE]
    ELSE LET classification == completion.content.str
         IN  [is_emergency |-> classification = EMERGENCY,
              classification |-> classification,
              confidence |-> IF classification \in {EMERGENCY, NON_EMERGENCY} THEN "high" ELSE "low",
              error |-> FALSE]

\* EmergencyClassifier.classify_call; completion is the outcome of
\* classification_chain.ainvoke.  None has no strip(), which raises inside
\* the try block.
classify_call(completion) ==
    IF HasRaised(completion) \/ IsNone(completion.content)
    THEN [is_emergency |-> TRUE, classification |-> EMERGENCY, confidence |-> "low", error |-> TRUE]
    ELSE LET classification == Upper(Strip(completion.content.str))
         IN  [is_emergency |-> classification = EMERGENCY,
              classification |-> classification,
              confidence |-> IF classification \in {EMERGENCY, NON_EMERGENCY} THEN "high" ELSE "low",
              error |-> FALSE]

\* groq_inference.get_call_summary: the call is not guarded, an error raised
\* by the client leaves the function
get_call_summary(completion) ==
    IF HasRaised(completion) THEN Raised
    ELSE IF IsNone(completion.content) THEN Returned(ERROR_NO_CONTENT)
    ELSE Returned(Strip(completion.content.str))

\* groq_inference.get_criticality_level: as get_call_summary
get_criticality_level(completion) ==
    IF HasRaised(completion) THEN Raised
    ELSE IF IsNone(completion.content) THEN Returned(ERROR_NO_CONTENT)
    ELSE Returned(Strip(completion.content.str))

(***************************************************************************)
(* twilio_webhook.py: TwiML responses, as the sequence of their verbs       *)
(***************************************************************************)
Say(message) == [verb |-> "Say", message |-> message]
Gather(config) == [verb |-> "Gather", config |-> config]
Redirect(url) == [verb |-> "Redirect", url |-> url]
Dial(number) == [verb |-> "Dial", number |-> number]
Hangup == [verb |-> "Hangup"]
ConnectStream(url) == [verb |-> "Connect", stream |-> url]

\* TwilioWebhookHandler.create_voice_response, with a gather_config
create_voice_response(message, gather_config) ==
    <<Say(message), Gather(gather_config), Redirect("/webhook/timeout")>>

\* TwilioWebhookHandler.create_dial_response
create_dial_response(phone_number, message) == <<Say(message), Dial(phone_number)>>

\* TwilioWebhookHandler.create_hangup_response
create_hangup_response(message) == <<Say(message), Hangup>>

(***************************************************************************)
(* server.py: process_speech                                                *)
(***************************************************************************)
\* number of webhook requests served
MaxRequests == 1

gather_config == [input |-> "speech", action |-> "/webhook/process-speech", method |-> "POST",
                  speech_timeout |-> 2, timeout |-> 15, language |-> "en-US"]

enum_to_int(label) ==
    IF label = CRITICAL THEN 4
    ELSE IF label = HIGH THEN 3
    ELSE IF label = MEDIUM THEN 2
    ELSE 1

\* Severity with LOW as the default
SeverityDefaultLow(severity_as_enum) ==
    IF severity_as_enum \notin {CRITICAL, HIGH, MEDIUM, LOW}
    THEN enum_to_int(LOW)
    ELSE enum_to_int(severity_as_enum)

\* process_speech, lines 152-163: the stored severity
Severity(severity_as_enum) ==
    IF severity_as_enum \notin {CRITICAL, HIGH, MEDIUM, LOW}
    THEN enum_to_int(HIGH)
    ELSE enum_to_int(severity_as_enum)

\* os.getenv(name, default)
getenv(name, default) == IF IsNone(environ[name]) THEN default ELSE environ[name]

\* the hangup without the apology
ErrorResponseSilent == <<Hangup>>

\* process_speech, lines 198-200
error_response == create_hangup_response("I'm sorry, there was an error processing your request.")

\* Route without the emergency branch
RouteAgentOnly(classification) ==
    <<Say("Connecting you to an assistant now."),
      ConnectStream(getenv("VOICE_AGENT_WS_URL", Str("wss://your-ngrok-url.ngrok.io/twilio")))>>

\* process_speech, lines 173-194: the routing of a classified call
Route(classification) ==
    IF classification.is_emergency
    THEN create_dial_response(
             getenv("EMERGENCY_DISPATCH_PHONE_NUMBER", None),
             "This appears to be an emergency. I'm transferring you to a human dispatcher now.")
    ELSE <<Say("Connecting you to an assistant now."),
           ConnectStream(getenv("VOICE_AGENT_WS_URL", Str("wss://your-ngrok-url.ngrok.io/twilio")))>>

\* process_speech, lines 122-201, as a function of the request: the form
\* (Raised when reading it fails, else [SpeechResult |-> text]) and the
\* outcomes of the services it calls.  Result: the TwiML returned, the
\* services called, the classification made and the row inserted, if any.
Served(twiml, services, classification, rows) ==
    [response |-> twiml, called |-> services, classification |-> classification, rows |-> rows]

\* ProcessSpeech testing the speech result without strip()
ProcessSpeechUnstripped(request) ==
    IF HasRaised(request.form) THEN Served(error_response, {}, None, <<>>)
    ELSE LET speech_result == Get(request.form, "SpeechResult", <<>>) IN
    IF speech_result = <<>>
    THEN Served(create_voice_response("I didn't catch that. Please tell me what's happening.",
                                      gather_config), {}, None, <<>>)
    ELSE LET classification == classify_call(request.classify)
             speech_summary == get_call_summary(request.summary)
             severity_as_enum == get_criticality_level(request.criticality)
         IN
    IF HasRaised(speech_summary)
    THEN Served(error_response, {"classify", "summary"}, classification, <<>>)
    ELSE IF HasRaised(severity_as_enum)
    THEN Served(error_response, {"classify", "summary", "criticality"}, classification, <<>>)
    ELSE LET caller_data == [latitude |-> "37.8029", longitude |-> "-122.44879",
                             severity |-> Severity(severity_as_enum.value),
                             metadata |-> speech_summary.value]
         IN
    IF request.insert = "raised"
    THEN Served(error_response, {"classify", "summary", "criticality", "insert"},
                classification, <<>>)
    ELSE Served(Route(classification),
                {"classify", "summary", "criticality", "insert"},
                classification, <<caller_data>>)

\* ProcessSpeech dialing the dispatcher also when the severity is CRITICAL
ProcessSpeechEscalating(request) ==
    IF HasRaised(request.form) THEN Served(error_response, {}, None, <<>>)
    ELSE LET speech_result == Get(request.form, "SpeechResult", <<>>) IN
    IF Strip(speech_result) = <<>>
    THEN Served(create_voice_response("I didn't catch that. Please tell me what's happening.",
                                      gather_config), {}, None, <<>>)
    ELSE LET classification == classify_call(request.classify)
             speech_summary == get_call_summary(request.summary)
             severity_as_enum == get_criticality_level(request.criticality)
         IN
    IF HasRaised(speech_summary)
    THEN Served(error_response, {"classify", "summary"}, classification, <<>>)
    ELSE IF HasRaised(severity_as_enum)
    THEN Served(error_response, {"classify", "summary", "criticality"}, classification, <<>>)
    ELSE LET caller_data == [latitude |-> "37.8029", longitude |-> "-122.44879",
                             severity |-> Severity(severity_as_enum.value),
                             metadata |-> speech_summary.value]
         IN
    IF request.insert = "raised"
    THEN Served(error_response, {"classify", "summary", "criticality", "insert"},
                classification, <<>>)
    ELSE Served(Route([classification EXCEPT !.is_emergency = @ \/ caller_data.severity = 4]),
                {"classify", "summary", "criticality", "insert"},
                classification, <<caller_data>>)

\* process_speech, lines 122-201, as a function of the request
ProcessSpeech(request) ==
    IF HasRaised(request.form) THEN Served(error_response, {}, None, <<>>)
    ELSE LET speech_result == Get(request.form, "SpeechResult", <<>>) IN
    IF Strip(speech_result) = <<>>
    THEN Served(create_voice_response("I didn't catch that. Please tell me what's happening.",
                                      gather_config), {}, None, <<>>)
    ELSE LET classification == classify_call(request.classify)
             speech_summary == get_call_summary(request.summary)
             severity_as_enum == get_criticality_level(request.criticality)
         IN
    IF HasRaised(speech_summary)
    THEN Served(error_response, {"classify", "summary"}, classification, <<>>)
    ELSE IF HasRaised(severity_as_enum)
    THEN Served(error_response, {"classify", "summary", "criticality"}, classification, <<>>)
    ELSE LET caller_data == [latitude |-> "37.8029", longitude |-> "-122.44879",
                             severity |-> Severity(severity_as_enum.value),
                             metadata |-> speech_summary.value]
         IN
    IF request.insert = "raised"
    THEN Served(error_response, {"classify", "summary", "criticality", "insert"},
                classification, <<>>)
    ELSE Served(Route(classification),
                {"classify", "summary", "criticality", "insert"},
                classification, <<caller_data>>)

\* the webhook /webhook/process-speech serves one request
process_speech(request) ==
    /\ requests < MaxRequests
    /\ requests' = requests + 1
    /\ last_request' = request
    /\ \E r \in {ProcessSpeech(request)} :
           /\ response' = r.response
           /\ called' = r.called
           /\ classification_result' = r.classification
           /\ callers' = callers \o r.rows
    /\ UNCHANGED <<environ, heap, connections, startup>>
    /\ UNCHANGED stream_vars
    /\ UNCHANGED bridge_vars

\* handle_incoming_call, lines 94-117, as a function of the form: Raised when
\* reading it fails
HandleIncomingCall(form) ==
    IF HasRaised(form)
    THEN create_hangup_response("I'm sorry, there was an error. Please try again.")
    ELSE create_voice_response("Nine one one, what is your emergency.", gather_config)

\* handle_root_post, lines 70-89, as a function of the form
HandleRootPost(form) ==
    IF HasRaised(form)
    THEN <<Say("I'm sorry, there was an error. Please try again."), Hangup>>
    ELSE <<Redirect("/webhook/voice")>>

\* POST / serves one request
handle_root_post(form) ==
    /\ requests < MaxRequests
    /\ requests' = requests + 1
    /\ last_request' = [endpoint |-> "/", form |-> form]
    /\ response' = HandleRootPost(form)
    /\ called' = {}
    /\ classification_result' = None
    /\ UNCHANGED <<callers, environ, heap, connections, startup>>
    /\ UNCHANGED stream_vars
    /\ UNCHANGED bridge_vars

\* the paths server.py serves for POST, lines 70, 91 and 119
PostRoutes == {"/", "/webhook/voice", "/webhook/process-speech"}

\* the webhook /webhook/voice serves one request
handle_incoming_call(form) ==
    /\ requests < MaxRequests
    /\ requests' = requests + 1
    /\ last_request' = [endpoint |-> "/webhook/voice", form |-> form]
    /\ response' = HandleIncomingCall(form)
    /\ called' = {}
    /\ classification_result' = None
    /\ UNCHANGED <<callers, environ, heap, connections, startup>>
    /\ UNCHANGED stream_vars
    /\ UNCHANGED bridge_vars

\* voice_agent_websocket, lines 204-245: the transport opens the media
\* websocket it was told to connect to, the server accepts it, constructs
\* DeepgramVoiceAgent() and calls twilio_handler
voice_agent_websocket ==
    /\ handler_pc = "unaccepted"
    /\ \E i \in 1..Len(response) : response[i].verb = "Connect"
    /\ call_transcript' = None
    /\ conversation_history' = <<>>
    /\ handler_pc' = "greeting"
    /\ UNCHANGED <<greeting_message, conversation_context, greeting_request,
                   audio_queue, streamsid_queue, sender_pc, receiver_pc, streamsid,
                   twilio_pc, inbuffer, twilio_state, twilio_count, twilio_message, twilio_out,
                   sts_state, sts_inbox, sts_count, sts_out,
                   enqueued, received, start_sids, sts_read, early>>
    /\ UNCHANGED speech_vars

(***************************************************************************)
(* Inputs                                                                   *)
(***************************************************************************)
StreamSids == {"MZ1", "MZ2"}

\* the k-th payload of the transport: size bytes of one value, the value
\* changing from one payload to the next
Fill == <<255, 85, 170, 0>>
Payload(size, k) == b64encode(Bytes(Fill[(k % 4) + 1], size))

Start(sid) == Json([event |-> "start", start |-> [streamSid |-> sid]])
Connected == Json([event |-> "connected", protocol |-> "Call"])
Media(track, size, k) ==
    Json([event |-> "media", media |-> [track |-> track, payload |-> Payload(size, k)]])
Stop == Json([event |-> "stop"])
Mark == Json([event |-> "mark"])

\* the envelopes of an ordinary call, k envelopes having been delivered before
CallEnvelopes(k) ==
    {Start(sid) : sid \in StreamSids} \cup {Media("inbound", BUFFER_SIZE, k), Stop}

\* payload sizes around the chunk size: empty, one telephony frame, one frame
\* less than a chunk, a chunk, and more than two chunks
PayloadSizes == {0, 160, BUFFER_SIZE - 160, BUFFER_SIZE, 2 * BUFFER_SIZE + 100}

\* every kind of transport message, well-formed or not
AnyEnvelopes(k) ==
    {Start("MZ1"), Connected, Stop, Mark, NotJson, JsonOther}
    \cup {Media("inbound", size, k) : size \in PayloadSizes}
    \cup {Media("outbound", 160, k)}
    \cup {Json([sequenceNumber |-> "1"]),
          Json([event |-> "start", start |-> [accountSid |-> "AC1"]]),
          Json([event |-> "media"]),
          Json([event |-> "media", media |-> [track |-> "inbound"]]),
          Json([event |-> "media", media |-> [payload |-> Payload(160, k)]]),
          Json([event |-> "media", media |-> [track |-> "inbound", payload |-> <<[v |-> 16, n |-> 1]>>]])}

UserStartedSpeaking == Json([type |-> "UserStartedSpeaking"])
ConversationText(role, content) == Json([type |-> "ConversationText", role |-> role, content |-> content])
AudioA == BinaryFrame(Bytes(255, 160))
AudioB == BinaryFrame(<<[v |-> 1, n |-> 1], [v |-> 2, n |-> 1]>>)

\* the backend messages of an ordinary call
CallBackendMessages ==
    {UserStartedSpeaking, AudioA, AudioB}

\* every kind of backend message
AnyBackendMessages ==
    {UserStartedSpeaking, AudioA, NotJson, JsonOther, Json([type |-> "Welcome"]),
     ConversationText("assistant", <<"*", "*", "S", "t", "a", "y", "*", "*", " ", "c", "a", "l", "m">>)}

\* the backend messages of a conversation: a barge-in, and the text of a
\* turn of the assistant, of the user, and an empty one
TurnMessages ==
    {UserStartedSpeaking,
     ConversationText("assistant", <<"*", "*", "S", "t", "a", "y", "*", "*", " ", "c", "a", "l", "m">>),
     ConversationText("user", <<"h", "e", "l", "p">>),
     ConversationText("user", <<>>)}

(***************************************************************************)
(* Specifications                                                           *)
(***************************************************************************)
\* twilio_handler, lines 95-96, and the two connections before the first step
InitLocals ==
    /\ greeting_message = None
    /\ conversation_context = None
    /\ greeting_request = None
    /\ audio_queue = <<>>
    /\ streamsid_queue = <<>>
    /\ sender_pc = "idle"
    /\ receiver_pc = "idle"
    /\ streamsid = "<unbound>"
    /\ twilio_pc = "idle"
    /\ inbuffer = <<>>
    /\ twilio_state = "open"
    /\ twilio_count = 0
    /\ twilio_message = None
    /\ twilio_out = <<>>
    /\ sts_state = "unconnected"
    /\ sts_inbox = <<>>
    /\ sts_count = 0
    /\ sts_out = <<>>
    /\ enqueued = <<>>
    /\ received = <<>>
    /\ start_sids = <<>>
    /\ sts_read = <<>>
    /\ early = FALSE

\* twilio_handler is entered
InitSession ==
    /\ handler_pc = "greeting"
    /\ InitLocals

\* server.py, voice_agent_websocket: the websocket is accepted and
\* DeepgramVoiceAgent() is constructed, without a transcript
InitBridge ==
    /\ call_transcript = None
    /\ conversation_history = <<>>
    /\ InitSession

Configured == [EMERGENCY_DISPATCH_PHONE_NUMBER |-> Str("+15550100"),
               VOICE_AGENT_WS_URL |-> Str("wss://agent.example/twilio")]
NotConfigured == [EMERGENCY_DISPATCH_PHONE_NUMBER |-> None, VOICE_AGENT_WS_URL |-> None]

\* the media websockets that can be open at the same time
Calls == {1, 2}
NoConnection == [pc |-> "none"]

\* the application being served, main() not having been the way in
Serving == [pc |-> "serving", at |-> "app", exit_status |-> None, warned |-> FALSE]

\* main.py: the table as the stream finds it and event_stream not started
InitStream ==
    /\ db_rows = <<>>
    /\ last_seen_id = 0
    /\ stream_pc = "start"
    /\ stream_events = <<>>

\* the module-level state of server.py once imported
InitModule ==
    /\ heap = <<>>
    /\ connections = [c \in Calls |-> NoConnection]
    /\ requests = 0
    /\ last_request = None
    /\ called = {}
    /\ classification_result = None
    /\ response = <<>>
    /\ callers = <<>>

InitServer ==
    /\ startup = Serving
    /\ InitModule
    /\ InitStream

Init == InitBridge /\ InitServer /\ environ = Configured

NoCompletion == Raised

\* the steps of the bridge
Program ==
    \/ GenerateGreeting(NoCompletion)
    \/ ConfigureBackend
    \/ _sts_sender
    \/ StreamSidGet
    \/ _sts_receiver
    \/ StsReceiverEnd
    \/ TwilioReceiverEnd
    \/ HandlerClose

Peers ==
    \/ BackendClose
    \/ TwilioDisconnect

\* one call, with the messages of an ordinary call
Next ==
    \/ Program
    \/ \E message \in CallEnvelopes(twilio_count) : _twilio_receiver(message)
    \/ \E message \in CallBackendMessages : BackendDeliver(message)
    \/ Peers

Spec == Init /\ [][Next]_vars

\* the steps of the bridge that do not read the backend
InboundProgram ==
    \/ GenerateGreeting(NoCompletion)
    \/ ConfigureBackend
    \/ _sts_sender
    \/ StreamSidGet
    \/ StsReceiverEnd
    \/ TwilioReceiverEnd
    \/ HandlerClose

\* one call with every kind of transport message, the backend staying silent
NextInbound ==
    \/ InboundProgram
    \/ \E message \in AnyEnvelopes(twilio_count) : _twilio_receiver(message)
    \/ Peers

SpecInbound == Init /\ [][NextInbound]_vars

\* Each task of the event loop that can run does run: the handler and the
\* three loops take their steps.  Nothing obliges the two peers to send a
\* message or to close.
Fairness ==
    /\ WF_vars(GenerateGreeting(NoCompletion))
    /\ WF_vars(ConfigureBackend)
    /\ WF_vars(_sts_sender)
    /\ WF_vars(StreamSidGet)
    /\ WF_vars(_sts_receiver)
    /\ WF_vars(StsReceiverEnd)
    /\ WF_vars(TwilioReceiverEnd)
    /\ WF_vars(HandlerClose)

SpecFair == Spec /\ Fairness

\* the requests of the webhook
Forms ==
    {Raised, [CallSid |-> "CA1"]}
    \cup {[SpeechResult |-> text] : text \in {<<" ", " ">>, <<"f", "i", "r", "e">>}}
ClassifyOutcomes ==
    {Raised, Content(None)}
    \cup {Content(Str(text)) : text \in {EMERGENCY, NON_EMERGENCY, <<" ", "e", "m", "e", "r", "g", "e", "n", "c", "y", "\n">>, <<"U", "n", "s", "u", "r", "e">>}}
SummaryOutcomes == {Raised, Content(None), Content(Str(<<" ", "F", "i", "r", "e", ".", " ">>))}
CriticalityOutcomes ==
    {Raised, Content(None)}
    \cup {Content(Str(text)) : text \in {CRITICAL, HIGH, MEDIUM, LOW,
                                          <<"c", "r", "i", "t", "i", "c", "a", "l">>,
                                          <<"L", "O", "W", ".">>}}
Requests ==
    [form : Forms, classify : ClassifyOutcomes, summary : SummaryOutcomes,
     criticality : CriticalityOutcomes, insert : {"ok", "raised"}]

InitSpeech == InitBridge /\ InitServer /\ environ \in {Configured, NotConfigured}

\* the forms of the webhook /webhook/voice
VoiceForms == {Raised, [CallSid |-> "CA1"]}

NextSpeech ==
    \/ \E request \in Requests : process_speech(request)
    \/ \E form \in VoiceForms : handle_incoming_call(form)
    \/ \E form \in VoiceForms : handle_root_post(form)

SpecSpeech == InitSpeech /\ [][NextSpeech]_vars

\* the envelopes of a call on one stream
StreamEnvelopes(k) == {Start("MZ1"), Media("inbound", BUFFER_SIZE, k), Stop}

\* one call, with the backend messages of a conversation
NextBackend ==
    \/ Program
    \/ \E message \in StreamEnvelopes(twilio_count) : _twilio_receiver(message)
    \/ \E message \in TurnMessages : BackendDeliver(message)
    \/ Peers

SpecBackend == Init /\ [][NextBackend]_vars

\* ConversationText events with a part missing or empty: no content, an
\* empty content, no role, and a content made of markup only
PartialTurns ==
    {Json([type |-> "ConversationText", role |-> "user"]),
     ConversationText("user", <<>>),
     Json([type |-> "ConversationText", content |-> <<"o", "k">>]),
     ConversationText("user", <<"*", "*">>)}

\* one call whose backend sends such events
NextTurns ==
    \/ Program
    \/ \E message \in StreamEnvelopes(twilio_count) : _twilio_receiver(message)
    \/ \E message \in PartialTurns : BackendDeliver(message)
    \/ Peers

SpecTurns == Init /\ [][NextTurns]_vars

\* the envelopes of a caller who stays on the line
OpenEnvelopes(k) == {Start("MZ1"), Media("inbound", BUFFER_SIZE, k)}

\* one call with every kind of backend message
NextOutbound ==
    \/ Program
    \/ \E message \in OpenEnvelopes(twilio_count) : _twilio_receiver(message)
    \/ \E message \in AnyBackendMessages : BackendDeliver(message)
    \/ Peers

SpecOutbound == Init /\ [][NextOutbound]_vars

\* number of turns an agent can hold when a session starts
MaxTurns == 30

Digits == <<"0", "1", "2", "3", "4", "5", "6", "7", "8", "9">>

\* the i-th recorded turn, as _add_to_conversation_history stores it
Turn(i) == [role |-> IF i % 2 = 1 THEN "user" ELSE "assistant",
            content |-> <<Digits[((i \div 10) % 10) + 1], Digits[(i % 10) + 1]>>]
History(k) == [i \in 1..k |-> Turn(i)]
Histories == {History(k) : k \in 0..MaxTurns}

\* the call_transcript argument of DeepgramVoiceAgent: absent, empty, blank
\* or a description with markup
Transcripts ==
    {None, Str(<<>>), Str(<<" ">>),
     Str(<<"k", "i", "t", "c", "h", "e", "n", "\n", "*", "f", "i", "r", "e", "*">>)}

\* the outcomes of the greeting request
GreetingCompletions ==
    {Raised, Content(None)}
    \cup {Content(Str(text)) : text \in
            {<<>>,
             <<"H", "e", "l", "l", "o">>,
             <<" ", "*", "*", "H", "i", "*", "*", ",", "\n", "\n", "a", "r", "e", " ", " ", "y", "o", "u", " ", "[", "s", "a", "f", "e", "]", "?", " ">>}}

\* a DeepgramVoiceAgent as its constructor and its recorded turns can leave
\* it when twilio_handler is called
InitAgent ==
    /\ call_transcript \in Transcripts
    /\ conversation_history \in Histories
    /\ InitSession
    /\ InitServer
    /\ environ = Configured

\* twilio_handler up to the start of the relay
NextAgent ==
    \/ \E completion \in GreetingCompletions : GenerateGreeting(completion)
    \/ ConfigureBackend

SpecAgent == InitAgent /\ [][NextAgent]_vars

\* a call from the webhook to the media session: no websocket is open at first
InitCall ==
    /\ call_transcript = None
    /\ conversation_history = <<>>
    /\ handler_pc = "unaccepted"
    /\ InitLocals
    /\ InitServer
    /\ environ = Configured

NextCall ==
    \/ \E request \in Requests : process_speech(request)
    \/ voice_agent_websocket
    \/ \E completion \in GreetingCompletions : GenerateGreeting(completion)
    \/ ConfigureBackend

SpecCall == InitCall /\ [][NextCall]_vars

\* length of the texts given to the sanitizer
MaxTextLen == 4

\* a letter, the whitespace and the symbols the sanitizer removes
Symbols == {"*", "_", Backtick, "#", "[", "]", "(", ")", "{", "}"}
Alphabet == {"a", " ", "\n"} \cup Symbols
Texts == UNION {[1..n -> Alphabet] : n \in 0..MaxTextLen}

\* an agent constructed with any text as its transcript
InitClean ==
    /\ call_transcript \in {Str(text) : text \in Texts}
    /\ conversation_history = <<>>
    /\ InitSession
    /\ InitServer
    /\ environ = Configured

\* self._add_to_conversation_history("user", content): first with the
\* transcript, then with the content stored by the call before
RecordTurn ==
    /\ Len(conversation_history) < 2
    /\ conversation_history' =
           _add_to_conversation_history(
               conversation_history, "user",
               IF conversation_history = <<>> THEN call_transcript.str
               ELSE conversation_history[Len(conversation_history)].content)
    /\ UNCHANGED <<call_transcript, handler_pc, greeting_message, conversation_context, greeting_request,
                   audio_queue, streamsid_queue, sender_pc, receiver_pc, streamsid,
                   twilio_pc, inbuffer, twilio_state, twilio_count, twilio_message, twilio_out,
                   sts_state, sts_inbox, sts_count, sts_out,
                   enqueued, received, start_sids, sts_read, early>>
    /\ UNCHANGED speech_vars

SpecClean == InitClean /\ [][RecordTurn]_vars

(***************************************************************************)
(* server.py run as a script: the module body, then main()                  *)
(***************************************************************************)
\* main, line 277
YOUR_NGROK_URL == <<"y", "o", "u", "r", "-", "n", "g", "r", "o", "k", "-", "u", "r", "l">>

\* "not value" for the value of os.getenv: None and the empty string
Falsy(value) == IsNone(value) \/ value.str = <<>>

\* sub in text
Contains(text, sub) ==
    \E i \in 1..(Len(text) - Len(sub) + 1) : SubSeq(text, i, i + Len(sub) - 1) = sub

\* main checking three of the four variables
RequiredVarsShort == <<"DEEPGRAM_API_KEY", "TWILIO_ACCOUNT_SID", "TWILIO_AUTH_TOKEN">>

\* main, lines 262-267
required_vars == <<"DEEPGRAM_API_KEY", "TWILIO_ACCOUNT_SID", "TWILIO_AUTH_TOKEN", "GROQ_API_KEY">>

\* main, line 269
missing_vars == SelectSeq(required_vars, LAMBDA var : Falsy(getenv(var, None)))

\* the module body of server.py, lines 1-37, and of the modules it imports:
\* EmergencyClassifier() and AsyncGroq() are built from GROQ_API_KEY and
\* create_client from SUPABASE_URL and SUPABASE_KEY.  Whether these
\* constructors raise on a missing value is the libraries' choice; an
\* exception that leaves the module body ends the interpreter with status 1.
ImportOutcomes ==
    {"imported"}
    \cup (IF \E var \in {"GROQ_API_KEY", "SUPABASE_URL", "SUPABASE_KEY"} : Falsy(getenv(var, None))
          THEN {"raised"} ELSE {})

ImportServer ==
    /\ startup.pc = "import"
    /\ \E outcome \in ImportOutcomes :
           startup' = IF outcome = "raised"
                      THEN [startup EXCEPT !.pc = "exited", !.exit_status = 1]
                      ELSE [startup EXCEPT !.pc = "main", !.at = "main"]
    /\ UNCHANGED <<requests, last_request, called, classification_result, response, callers, environ,
                   heap, connections>>
    /\ UNCHANGED stream_vars
    /\ UNCHANGED bridge_vars

\* main, lines 256-283: sys.exit(1) on a missing variable, else a warning
\* when the stream URL is missing or the placeholder, and uvicorn.run
main ==
    /\ startup.pc = "main"
    /\ startup' =
          IF missing_vars # <<>>
          THEN [startup EXCEPT !.pc = "exited", !.exit_status = 1]
          ELSE LET voice_agent_url == getenv("VOICE_AGENT_WS_URL", None)
               IN  [startup EXCEPT !.pc = "serving",
                                   !.warned = \/ Falsy(voice_agent_url)
                                              \/ Contains(voice_agent_url.str, YOUR_NGROK_URL)]
    /\ UNCHANGED <<requests, last_request, called, classification_result, response, callers, environ,
                   heap, connections>>
    /\ UNCHANGED stream_vars
    /\ UNCHANGED bridge_vars

\* values of a credential: unset, empty, set
Secrets == {None, Str(<<>>), Str(<<"k", "1">>)}
StreamUrls ==
    {None, Str(<<>>),
     Str(<<"w", "s", "s", ":", "/", "/", "y", "o", "u", "r", "-", "n", "g", "r", "o", "k", "-", "u", "r", "l", ".", "n", "g", "r", "o", "k", ".", "i", "o", "/", "t", "w", "i", "l", "i", "o">>),
     Str(<<"w", "s", "s", ":", "/", "/", "a", "b", "c", "1", "2", "3", ".", "n", "g", "r", "o", "k", ".", "i", "o", "/", "t", "w", "i", "l", "i", "o">>)}
Environments ==
    [DEEPGRAM_API_KEY : Secrets, TWILIO_ACCOUNT_SID : Secrets, TWILIO_AUTH_TOKEN : Secrets,
     GROQ_API_KEY : Secrets, SUPABASE_URL : {None, Str(<<"u">>)}, SUPABASE_KEY : {None, Str(<<"k">>)},
     VOICE_AGENT_WS_URL : StreamUrls, EMERGENCY_DISPATCH_PHONE_NUMBER : {None}]

InitMain ==
    /\ InitBridge
    /\ InitModule
    /\ InitStream
    /\ environ \in Environments
    /\ startup = [pc |-> "import", at |-> "import", exit_status |-> None, warned |-> FALSE]

NextMain ==
    \/ ImportServer
    \/ main

SpecMain == InitMain /\ [][NextMain]_vars

(***************************************************************************)
(* server.py: several media websockets at the same time.  Objects are held  *)
(* by identity: heap[i] is the value of object i, and a connection names    *)
(* the objects its handler and its loops use.                               *)
(***************************************************************************)
\* number of messages delivered over all connections
MaxCallMsgs == 6

\* one agent and one set of queues used by every connection
AllocShared(h) == [agent |-> 1, audio_queue |-> 2, streamsid_queue |-> 3, inbuffer |-> 4]

\* voice_agent_websocket line 244 (DeepgramVoiceAgent() and its
\* conversation_history), twilio_handler lines 95-96 (the two queues) and
\* _twilio_receiver line 220 (inbuffer): each call of these creates objects
Alloc(h) == [agent |-> Len(h) + 1, audio_queue |-> Len(h) + 2,
             streamsid_queue |-> Len(h) + 3, inbuffer |-> Len(h) + 4]

IsOpen(c) == connections[c].pc = "relay"
Count(c) == IF IsOpen(c) THEN connections[c].count ELSE 0
Delivered == Count(1) + Count(2)

\* voice_agent_websocket and twilio_handler up to the start of the loops, for
\* connection c
CallAccept(c) ==
    /\ connections[c].pc = "none"
    /\ LET o == Alloc(heap)
           size == IF o.inbuffer > Len(heap) THEN o.inbuffer ELSE Len(heap)
       IN  /\ heap' = [i \in 1..size |-> IF i <= Len(heap) THEN heap[i] ELSE <<>>]
           /\ connections' =
                  [connections EXCEPT ![c] =
                      [pc |-> "relay", count |-> 0,
                       agent |-> o.agent, audio_queue |-> o.audio_queue,
                       streamsid_queue |-> o.streamsid_queue, inbuffer |-> o.inbuffer,
                       twilio_pc |-> "loop", receiver_pc |-> "await_sid",
                       streamsid |-> "<unbound>", twilio_out |-> <<>>,
                       sts_out |-> <<Json(config_message(
                                       None, _generate_personalized_greeting(None, NoCompletion)))>>]]
    /\ UNCHANGED <<requests, last_request, called, classification_result, response, callers, environ, startup>>
    /\ UNCHANGED stream_vars
    /\ UNCHANGED bridge_vars

\* _twilio_receiver of connection c: one iteration
CallTwilioReceiver(c, message) ==
    /\ IsOpen(c)
    /\ connections[c].twilio_pc = "loop"
    /\ Delivered < MaxCallMsgs
    /\ LET k == connections[c]
           o == HandleEnvelope(message)
           d == Drain(RCat(heap[k.inbuffer], o.ext))
           skip == o.brk \/ o.cont
           h1 == [heap EXCEPT ![k.streamsid_queue] = @ \o o.sid]
           h2 == [h1 EXCEPT ![k.inbuffer] = IF skip THEN @ ELSE d.rest]
       IN  /\ heap' = [h2 EXCEPT ![k.audio_queue] = IF skip THEN @ ELSE @ \o d.chunks]
           /\ connections' = [connections EXCEPT ![c].count = @ + 1,
                                                 ![c].twilio_pc = IF o.brk THEN "done" ELSE "loop"]
    /\ UNCHANGED <<requests, last_request, called, classification_result, response, callers, environ, startup>>
    /\ UNCHANGED stream_vars
    /\ UNCHANGED bridge_vars

\* _sts_sender of connection c: one iteration
CallStsSender(c) ==
    /\ IsOpen(c)
    /\ heap[connections[c].audio_queue] # <<>>
    /\ LET k == connections[c]
       IN  /\ connections' = [connections EXCEPT ![c].sts_out =
                                  Append(@, BinaryFrame(QueueGet(heap[k.audio_queue])))]
           /\ heap' = [heap EXCEPT ![k.audio_queue] = Tail(@)]
    /\ UNCHANGED <<requests, last_request, called, classification_result, response, callers, environ, startup>>
    /\ UNCHANGED stream_vars
    /\ UNCHANGED bridge_vars

\* _sts_receiver of connection c, line 181
CallStreamSidGet(c) ==
    /\ IsOpen(c)
    /\ connections[c].receiver_pc = "await_sid"
    /\ heap[connections[c].streamsid_queue] # <<>>
    /\ LET k == connections[c]
       IN  /\ connections' = [connections EXCEPT ![c].streamsid = Head(heap[k.streamsid_queue]),
                                                 ![c].receiver_pc = "loop"]
           /\ heap' = [heap EXCEPT ![k.streamsid_queue] = Tail(@)]
    /\ UNCHANGED <<requests, last_request, called, classification_result, response, callers, environ, startup>>
    /\ UNCHANGED stream_vars
    /\ UNCHANGED bridge_vars

\* _sts_receiver of connection c: one iteration on a message of its backend
CallStsReceiver(c, message) ==
    /\ IsOpen(c)
    /\ connections[c].receiver_pc = "loop"
    /\ Delivered < MaxCallMsgs
    /\ LET k == connections[c]
           turn == /\ message.frame = "text"
                   /\ message.json = "object"
                   /\ Get(message.data, "type", "") = "ConversationText"
                   /\ Get(message.data, "content", <<>>) # <<>>
       IN  /\ connections' = [connections EXCEPT ![c].count = @ + 1,
                                                 ![c].twilio_out = @ \o Outbound(message, k.streamsid)]
           /\ heap' = IF turn
                      THEN [heap EXCEPT ![k.agent] =
                               _add_to_conversation_history(
                                   @, Get(message.data, "role", "assistant"), message.data.content)]
                      ELSE heap
    /\ UNCHANGED <<requests, last_request, called, classification_result, response, callers, environ, startup>>
    /\ UNCHANGED stream_vars
    /\ UNCHANGED bridge_vars

\* what the peers of connection c send: its stream id, its audio, its turns
Sid(c) == IF c = 1 THEN "MZ1" ELSE "MZ2"
Voice(c) == Fill[c + 1]
CallText(c) == <<"c", "a", "l", "l", Digits[c + 1]>>
CallerEnvelopes(c) ==
    {Start(Sid(c)),
     Json([event |-> "media",
           media |-> [track |-> "inbound", payload |-> b64encode(Bytes(Voice(c), BUFFER_SIZE + 160))]])}
CallerReplies(c) ==
    {BinaryFrame(Bytes(Voice(c), 160)), UserStartedSpeaking, ConversationText("user", CallText(c))}

NextCalls ==
    \E c \in Calls :
        \/ CallAccept(c)
        \/ \E message \in CallerEnvelopes(c) : CallTwilioReceiver(c, message)
        \/ CallStsSender(c)
        \/ CallStreamSidGet(c)
        \/ \E message \in CallerReplies(c) : CallStsReceiver(c, message)

SpecCalls == Init /\ [][NextCalls]_vars

(***************************************************************************)
(* main.py: the event generator of /callers/stream                          *)
(***************************************************************************)
\* number of db_rows the table comes to hold, number of events yielded
MaxRows == 3
MaxEvents == 3

\* max() of a non-empty collection of ids
MaxId(ids) == CHOOSE m \in ids : \A i \in ids : i <= m

\* order("id", desc=False)
RECURSIVE Ascending(_)
Ascending(ids) ==
    IF ids = {} THEN <<>>
    ELSE LET m == MaxId(ids) IN Append(Ascending(ids \ {m}), m)

Range(seq) == {seq[i] : i \in 1..Len(seq)}

\* the query of the loop with gte in place of gt
NewCallersInclusive(table, last) == Ascending({id \in Range(table) : id >= last})

\* event_stream, line 88: select("*").gt("id", last_seen_id).order("id")
NewCallers(table, last) == Ascending({id \in Range(table) : id > last})

\* event_stream, line 74: order("created_at", desc=True).limit(10)
InitialCallers(table) ==
    LET newest == Reverse(table)
    IN  SubSeq(newest, 1, IF Len(newest) < 10 THEN Len(newest) ELSE 10)

\* a row becomes visible in the table: add_caller of main.py or the insert
\* of process_speech; the database chooses the id
RowInserted(id) ==
    /\ Len(db_rows) < MaxRows
    /\ id \notin Range(db_rows)
    /\ db_rows' = Append(db_rows, id)
    /\ UNCHANGED <<last_seen_id, stream_pc, stream_events>>
    /\ UNCHANGED <<requests, last_request, called, classification_result, response, callers, environ,
                   heap, connections, startup>>
    /\ UNCHANGED bridge_vars

\* event_stream, lines 70-84: the initial query, outside any try block
stream_callers(outcome) ==
    /\ stream_pc = "start"
    /\ IF outcome = "raised"
       THEN /\ stream_pc' = "failed"
            /\ UNCHANGED <<last_seen_id, stream_events>>
       ELSE LET data == InitialCallers(db_rows)
            IN  /\ stream_pc' = "loop"
                /\ IF data # <<>>
                   THEN /\ last_seen_id' = MaxId(Range(data))
                        /\ stream_events' = Append(stream_events,
                               [type |-> "initial", callers |-> data, last_id |-> MaxId(Range(data))])
                   ELSE UNCHANGED <<last_seen_id, stream_events>>
    /\ UNCHANGED db_rows
    /\ UNCHANGED <<requests, last_request, called, classification_result, response, callers, environ,
                   heap, connections, startup>>
    /\ UNCHANGED bridge_vars

\* event_stream, lines 86-121: one iteration of the loop
Poll(outcome) ==
    /\ stream_pc = "loop"
    /\ Len(stream_events) < MaxEvents
    /\ IF outcome = "raised"
       THEN /\ stream_events' = Append(stream_events, [type |-> "error"])
            /\ UNCHANGED last_seen_id
       ELSE LET new_callers == NewCallers(db_rows, last_seen_id)
            IN  IF new_callers # <<>>
                THEN /\ last_seen_id' = MaxId(Range(new_callers))
                     /\ stream_events' = Append(stream_events,
                            [type |-> "new_callers", callers |-> new_callers,
                             last_id |-> MaxId(Range(new_callers))])
                ELSE /\ stream_events' = Append(stream_events,
                            [type |-> "heartbeat", last_id |-> last_seen_id])
                     /\ UNCHANGED last_seen_id
    /\ UNCHANGED <<db_rows, stream_pc>>
    /\ UNCHANGED <<requests, last_request, called, classification_result, response, callers, environ,
                   heap, connections, startup>>
    /\ UNCHANGED bridge_vars

QueryOutcomes == {"ok", "raised"}

NextStream ==
    \/ \E id \in 1..MaxRows : RowInserted(id)
    \/ \E outcome \in QueryOutcomes : stream_callers(outcome)
    \/ \E outcome \in QueryOutcomes : Poll(outcome)

SpecStream == Init /\ [][NextStream]_vars

(***************************************************************************)
(* Properties                                                               *)
(***************************************************************************)
IsPrefix(a, b) == Len(a) <= Len(b) /\ SubSeq(b, 1, Len(a)) = a

IsBinary(frame) == frame.frame = "binary"
IsClear(envelope) == envelope.data.event = "clear"
IsMedia(envelope) == envelope.data.event = "media"
IsBargeIn(message) ==
    /\ message.frame = "text"
    /\ message.json = "object"
    /\ "type" \in DOMAIN message.data
    /\ message.data.type = "UserStartedSpeaking"

\* the chunks sent to the backend, in order
ChunksSent ==
    LET frames == SelectSeq(sts_out, IsBinary)
    IN  [i \in 1..Len(frames) |-> frames[i].bytes]

\* the envelopes that the backend messages read so far call for, in the order
\* the messages were read
IsForwarded(message) == IsBinary(message) \/ IsBargeIn(message)
Expected ==
    LET msgs == SelectSeq(sts_read, IsForwarded)
    IN  [i \in 1..Len(msgs) |->
            IF IsBinary(msgs[i])
            THEN Json([event |-> "media", streamSid |-> streamsid,
                       media |-> [payload |-> b64encode(msgs[i].bytes)]])
            ELSE Json([event |-> "clear", streamSid |-> streamsid])]

RECURSIVE Flatten(_)
Flatten(chunks) == IF chunks = <<>> THEN <<>> ELSE RCat(chunks[1], Flatten(Tail(chunks)))

\* C1: nothing is sent to the transport, and no backend message is read,
\* before a 'start' envelope was received and _sts_receiver holds its id
C1_NoEnvelopeBeforeStreamSid ==
    (twilio_out # <<>> \/ sts_read # <<>>) =>
        /\ start_sids # <<>>
        /\ receiver_pc \in {"loop", "done"}
        /\ \E i \in 1..Len(start_sids) : streamsid = start_sids[i]

\* a backend message arrived before the id was known and envelopes were sent
\* once it was
C1_Witness == early /\ twilio_out # <<>> /\ start_sids # <<>>

AnyLoopDone == sender_pc = "done" \/ receiver_pc = "done" \/ twilio_pc = "done"
SessionClosed ==
    /\ handler_pc = "closed"
    /\ sender_pc = "done" /\ receiver_pc = "done" /\ twilio_pc = "done"
    /\ twilio_state # "open"
    /\ sts_state = "closed"
C3_LoopEndClosesSession == AnyLoopDone ~> SessionClosed

\* C4: every chunk put on audio_queue, waiting there or sent to the backend
\* is exactly BUFFER_SIZE bytes long
C4_ChunksAreFullSize ==
    /\ \A i \in 1..Len(enqueued) : RLen(enqueued[i]) = BUFFER_SIZE
    /\ \A i \in 1..Len(audio_queue) : RLen(audio_queue[i]) = BUFFER_SIZE
    /\ \A i \in 1..Len(ChunksSent) : RLen(ChunksSent[i]) = BUFFER_SIZE

\* chunks were enqueued and bytes below the threshold stay in the buffer
C4_Witness == Len(enqueued) >= 2 /\ inbuffer # <<>> /\ ChunksSent # <<>>

\* C5: the chunks enqueued so far followed by the buffer are the inbound
\* audio received so far
C5_NoByteLost == RCat(Flatten(enqueued), inbuffer) = received

\* audio of several payloads was split over chunks and the buffer
C5_Witness == Len(enqueued) >= 2 /\ inbuffer # <<>> /\ Len(received) >= 2

\* C6: the chunks sent to the backend are a prefix of the chunks enqueued, and
\* the 'media' envelopes sent are in the order the audio was read
C6_OrderPreserved ==
    /\ IsPrefix(ChunksSent, enqueued)
    /\ IsPrefix(SelectSeq(twilio_out, IsMedia), SelectSeq(Expected, IsMedia))

\* two different chunks were sent and two different audio messages forwarded
C6_Witness ==
    /\ Len(ChunksSent) >= 2 /\ ChunksSent[1] # ChunksSent[2]
    /\ \E i, j \in 1..Len(twilio_out) :
          /\ i < j /\ IsMedia(twilio_out[i]) /\ IsMedia(twilio_out[j])
          /\ twilio_out[i] # twilio_out[j]

\* C7: every envelope sent carries the id of the first 'start' envelope, and
\* that is the id _sts_receiver holds
C7_OneStreamSid ==
    /\ \A i \in 1..Len(twilio_out) :
          start_sids # <<>> /\ twilio_out[i].data.streamSid = start_sids[1]
    /\ receiver_pc \in {"loop", "done"} => start_sids # <<>> /\ streamsid = start_sids[1]

\* a second 'start' envelope with another id arrived and envelopes were sent
C7_Witness ==
    /\ Len(start_sids) >= 2 /\ start_sids[2] # start_sids[1]
    /\ \E i \in 1..Len(twilio_out) : IsClear(twilio_out[i])
    /\ \E i \in 1..Len(twilio_out) : IsMedia(twilio_out[i])

\* the reply of the classifier is one of the two labels
Recognized(completion) ==
    /\ ~HasRaised(completion)
    /\ ~IsNone(completion.content)
    /\ Upper(Strip(completion.content.str)) \in {EMERGENCY, NON_EMERGENCY}

Classified == ~IsNone(classification_result)

\* C8: a classification made from a failed call or from a reply that is
\* neither label marks the call as an emergency
C8_ClassifierFailSafe ==
    (Classified /\ ~Recognized(last_request.classify)) => classification_result.is_emergency

HasVerb(twiml, verb) == \E i \in 1..Len(twiml) : twiml[i].verb = verb
DialsDispatcher ==
    \E i \in 1..Len(response) :
        /\ response[i].verb = "Dial"
        /\ response[i].number = environ["EMERGENCY_DISPATCH_PHONE_NUMBER"]

\* C9: a call classified as an emergency is answered with a Dial to the
\* dispatcher
C9_EmergencyIsDialed ==
    (Classified /\ classification_result.is_emergency) => DialsDispatcher

\* C10: when the summary call or the criticality call raised, the caller
\* still gets the routing response, not the apology and hangup
C10_ModelFailureStillRoutes ==
    (Classified /\ (HasRaised(last_request.summary) \/ HasRaised(last_request.criticality))) =>
        /\ ~HasVerb(response, "Hangup")
        /\ HasVerb(response, "Dial") \/ HasVerb(response, "Connect")

\* the last request was served up to the insert, which succeeded
Persisted == "insert" \in called /\ last_request.insert = "ok"
LastRow == callers[Len(callers)]

\* the text get_criticality_level returned for the last request
CriticalityReturned ==
    IF IsNone(last_request.criticality.content) THEN ERROR_NO_CONTENT
    ELSE Strip(last_request.criticality.content.str)

\* C11: the stored severity is 4, 3, 2, 1 for the returned texts CRITICAL,
\* HIGH, MEDIUM, LOW and 3 for every other returned text; every row of the
\* table has a severity in 1..4
C11_SeverityMapping ==
    /\ \A i \in 1..Len(callers) : callers[i].severity \in 1..4
    /\ Persisted =>
          LastRow.severity = CASE CriticalityReturned = CRITICAL -> 4
                               [] CriticalityReturned = HIGH -> 3
                               [] CriticalityReturned = MEDIUM -> 2
                               [] CriticalityReturned = LOW -> 1
                               [] OTHER -> 3

\* a row was stored for a returned text that is none of the four labels
C11_Witness ==
    /\ Persisted
    /\ CriticalityReturned \notin {CRITICAL, HIGH, MEDIUM, LOW}
    /\ LastRow.severity = 3

\* the last request carried a non-blank transcript and the summary call, the
\* criticality call and the insert all succeeded
Succeeded ==
    /\ requests > 0
    /\ ~HasRaised(last_request.form)
    /\ "SpeechResult" \in DOMAIN last_request.form
    /\ Strip(last_request.form.SpeechResult) # <<>>
    /\ ~HasRaised(last_request.summary)
    /\ ~HasRaised(last_request.criticality)
    /\ last_request.insert = "ok"

VerbCount(twiml, verb) == Cardinality({i \in 1..Len(twiml) : twiml[i].verb = verb})

ConnectsAgent ==
    \E i \in 1..Len(response) :
        /\ response[i].verb = "Connect"
        /\ response[i].stream = IF IsNone(environ["VOICE_AGENT_WS_URL"])
                                THEN Str("wss://your-ngrok-url.ngrok.io/twilio")
                                ELSE environ["VOICE_AGENT_WS_URL"]

\* C12: when everything succeeded the response holds exactly one routing
\* verb: a Dial to the dispatcher if is_emergency is true, a Connect/Stream
\* to the voice agent if it is false, and no Hangup
C12_ExactlyOneRoute ==
    Succeeded =>
        /\ Classified
        /\ VerbCount(response, "Dial") + VerbCount(response, "Connect") = 1
        /\ ~HasVerb(response, "Hangup")
        /\ classification_result.is_emergency <=> DialsDispatcher
        /\ ~classification_result.is_emergency <=> ConnectsAgent

\* a call classified as no emergency was connected to the voice agent
C12_Witness ==
    /\ Succeeded
    /\ ~classification_result.is_emergency
    /\ ConnectsAgent
    /\ ~HasVerb(response, "Dial")

\* an error reached the handler of the last request: reading the form failed
\* or, for a non-blank transcript, the summary call, the criticality call or
\* the insert raised
SetupError ==
    /\ requests > 0
    /\ \/ HasRaised(last_request.form)
       \/ /\ "endpoint" \notin DOMAIN last_request
          /\ Strip(Get(last_request.form, "SpeechResult", <<>>)) # <<>>
          /\ \/ HasRaised(last_request.summary)
             \/ HasRaised(last_request.criticality)
             \/ last_request.insert = "raised"

Apologies == {"I'm sorry, there was an error. Please try again.",
              "I'm sorry, there was an error processing your request."}

\* C13: an error raised while a webhook request is served is answered with a
\* TwiML response that speaks an apology and hangs up, and nothing else
C13_SetupErrorHangsUp ==
    SetupError =>
        /\ Len(response) = 2
        /\ response[1].verb = "Say" /\ response[1].message \in Apologies
        /\ response[2] = Hangup

\* the insert raised after both model calls had succeeded
C13_Witness ==
    /\ SetupError
    /\ ~HasRaised(last_request.form)
    /\ ~HasRaised(last_request.summary) /\ ~HasRaised(last_request.criticality)
    /\ "insert" \in called
    /\ HasVerb(response, "Hangup")

IsSettings(message) ==
    /\ message.frame = "text"
    /\ message.json = "object"
    /\ Get(message.data, "type", "") = "Settings"

\* the Settings messages sent to the backend
SettingsSent == SelectSeq(sts_out, IsSettings)

\* C14: the Settings message sent to the backend carries the context window
\* that _get_conversation_context produced
C14_SettingsCarriesContext ==
    \A i \in 1..Len(SettingsSent) :
        /\ "context" \in DOMAIN SettingsSent[i].data.agent
        /\ SettingsSent[i].data.agent.context = conversation_context

\* C15: the bridge that serves the media stream of a call routed to the
\* voice agent holds the speech text of that call as its transcript, and the
\* instruction prompt of its Settings message describes that text
C15_BridgeHoldsTranscript ==
    handler_pc # "unaccepted" =>
        /\ call_transcript = Str(last_request.form.SpeechResult)
        /\ \A i \in 1..Len(SettingsSent) :
              SettingsSent[i].data.agent.think.prompt.described = last_request.form.SpeechResult

\* the greeting request failed: it raised or returned no content
GreetingFailed ==
    /\ ~IsNone(greeting_request)
    /\ \/ HasRaised(greeting_request.completion)
       \/ IsNone(greeting_request.completion.content)

\* C16: for an empty or absent transcript no greeting request is made; then,
\* and when the request raised or returned no content, the greeting is the
\* default greeting, and it is the greeting of the Settings message
C16_GreetingFallsBack ==
    handler_pc # "greeting" =>
        /\ ~Truthy(call_transcript) => IsNone(greeting_request)
        /\ (IsNone(greeting_request) \/ GreetingFailed) =>
              /\ greeting_message = Str(DEFAULT_GREETING)
              /\ \A i \in 1..Len(SettingsSent) :
                    SettingsSent[i].data.agent.greeting = DEFAULT_GREETING

\* the backend was configured with the default greeting after a request that
\* returned no content
C16_Witness ==
    /\ GreetingFailed
    /\ ~HasRaised(greeting_request.completion)
    /\ handler_pc = "relay"
    /\ Len(SettingsSent) = 1
    /\ SettingsSent[1].data.agent.greeting = DEFAULT_GREETING

\* the greeting request returned a text
GreetingReturned ==
    /\ ~IsNone(greeting_request)
    /\ ~HasRaised(greeting_request.completion)
    /\ ~IsNone(greeting_request.completion.content)

\* C17: when the greeting request returned a text, the greeting of the
\* Settings message is the sanitized text
C17_GreetingIsCleaned ==
    GreetingReturned =>
        \A i \in 1..Len(SettingsSent) :
            SettingsSent[i].data.agent.greeting =
                _clean_voice_text(greeting_request.completion.content.str)

\* a returned text with markup was configured as 'Hi, are you safe?'
C17_Witness ==
    /\ GreetingReturned
    /\ Len(SettingsSent) = 1
    /\ SettingsSent[1].data.agent.greeting # greeting_request.completion.content.str
    /\ SettingsSent[1].data.agent.greeting =
           <<"H", "i", ",", " ", "a", "r", "e", " ", "y", "o", "u", " ", "s", "a", "f", "e", "?">>

ContextRead == handler_pc \in {"relay", "closed"}

InitialDescription == <<"I", "n", "i", "t", "i", "a", "l", " ", "e", "m", "e", "r", "g", "e", "n", "c", "y", " ", "d", "e", "s", "c", "r", "i", "p", "t", "i", "o", "n", ":", " ">>

\* C18: the context window has at most 11 entries: a leading 'user' entry for
\* the initial transcript exactly when there is one, then the last
\* min(k, 10) of the k recorded turns, in their recorded order
C18_ContextWindowBounded ==
    ContextRead =>
        LET k == Len(conversation_history)
            m == IF k < 10 THEN k ELSE 10
            lead == Len(conversation_context) - m
        IN  /\ Len(conversation_context) <= 11
            /\ lead = (IF Truthy(call_transcript) THEN 1 ELSE 0)
            /\ lead = 1 =>
                  /\ conversation_context[1].role = "user"
                  /\ IsPrefix(InitialDescription, conversation_context[1].content)
            /\ \A i \in 1..m : conversation_context[lead + i] = conversation_history[k - m + i]

\* a window of 11 entries was read from more than 10 recorded turns
C18_Witness ==
    /\ ContextRead
    /\ Len(conversation_history) > 10
    /\ Len(conversation_context) = 11
    /\ conversation_context[2] = conversation_history[Len(conversation_history) - 9]

\* C19: the step that reads the context window leaves conversation_history
\* as it was
C19_ContextReadKeepsHistory ==
    [][(handler_pc = "connect" /\ handler_pc' = "relay") =>
           conversation_history' = conversation_history]_vars

\* the window was read from more than 10 recorded turns, which are all still
\* stored
C19_Witness ==
    /\ ContextRead
    /\ Len(conversation_history) > 10
    /\ Len(conversation_context) < Len(conversation_history)
    /\ conversation_history = History(Len(conversation_history))

IsConversationText(message) ==
    /\ message.frame = "text"
    /\ message.json = "object"
    /\ Get(message.data, "type", "") = "ConversationText"

\* C20: a step keeps every stored turn in its place and adds at most one
\* turn at the end; the only step that adds one is _sts_receiver reading a
\* ConversationText event from the backend
C20_HistoryAppendOnly ==
    [][/\ IsPrefix(conversation_history, conversation_history')
       /\ Len(conversation_history') <= Len(conversation_history) + 1
       /\ conversation_history' # conversation_history =>
             /\ receiver_pc = "loop"
             /\ sts_inbox # <<>>
             /\ IsConversationText(Head(sts_inbox))
             /\ sts_inbox' = Tail(sts_inbox)]_vars

\* two turns were recorded, sanitized, while audio was relayed
C20_Witness ==
    /\ Len(conversation_history) = 2
    /\ conversation_history[1].content = <<"S", "t", "a", "y", " ", "c", "a", "l", "m">>
    /\ conversation_history[2].role = "user"
    /\ ChunksSent # <<>>

\* a ConversationText event with a non-empty content
IsTurn(message) ==
    /\ IsConversationText(message)
    /\ "content" \in DOMAIN message.data
    /\ message.data.content # <<>>

StayCalmMarked == <<"*", "*", "S", "t", "a", "y", "*", "*", " ", "c", "a", "l", "m">>
StayCalm == <<"S", "t", "a", "y", " ", "c", "a", "l", "m">>

\* C21: the stored turns are, in the order read, one turn per ConversationText
\* event with a non-empty content, with the role of the event and its
\* sanitized content; '**Stay** calm' is stored as 'Stay calm'
C21_TurnsRecordedClean ==
    LET turns == SelectSeq(sts_read, IsTurn)
    IN  /\ Len(conversation_history) = Len(turns)
        /\ \A i \in 1..Len(turns) :
              /\ conversation_history[i].role = turns[i].data.role
              /\ conversation_history[i].content = _clean_voice_text(turns[i].data.content)
              /\ turns[i].data.content = StayCalmMarked =>
                    conversation_history[i].content = StayCalm

\* the turn of the assistant was recorded as 'Stay calm' after a barge-in
C21_Witness ==
    /\ Len(sts_read) = 2
    /\ IsBargeIn(sts_read[1])
    /\ conversation_history = <<[role |-> "assistant", content |-> StayCalm]>>

\* C22: the sanitized text holds none of the symbols, no newline, no two
\* whitespace characters in a row and no whitespace at either end, and
\* sanitizing it again gives the same text
C22_CleanIdempotent ==
    /\ Len(conversation_history) >= 1 =>
          LET out == conversation_history[1].content
          IN  /\ \A i \in 1..Len(out) : out[i] \notin Symbols /\ out[i] # "\n"
              /\ \A i \in 1..(Len(out) - 1) :
                    ~(out[i] \in Whitespace /\ out[i + 1] \in Whitespace)
              /\ out # <<>> => out[1] \notin Whitespace /\ out[Len(out)] \notin Whitespace
    /\ Len(conversation_history) = 2 =>
          conversation_history[2].content = conversation_history[1].content

\* a text with a symbol between two blanks was sanitized twice
C22_Witness ==
    /\ call_transcript = Str(<<"a", " ", "*", " ">>)
    /\ Len(conversation_history) = 2
    /\ conversation_history[2].content = <<"a">>

\* the step is an iteration of _twilio_receiver
ReadsEnvelope == twilio_count' = twilio_count + 1

HasEvent(message) == message.json = "object" /\ "event" \in DOMAIN message.data

\* a well-formed envelope with an event the receiver does not know
IsUnknownEvent(message) ==
    /\ HasEvent(message)
    /\ message.data.event \notin {"start", "connected", "media", "stop"}

\* C23: an iteration of _twilio_receiver on a well-formed envelope of an
\* unknown event leaves inbuffer, audio_queue and streamsid_queue unchanged
\* and the loop running
C23_UnknownEventIgnored ==
    [][(ReadsEnvelope /\ IsUnknownEvent(twilio_message')) =>
           /\ inbuffer' = inbuffer
           /\ audio_queue' = audio_queue
           /\ streamsid_queue' = streamsid_queue
           /\ twilio_pc' = "loop"]_vars

\* a 'mark' envelope was read while audio was buffered and a stream id queued
C23_Witness ==
    /\ twilio_count >= 2
    /\ IsUnknownEvent(twilio_message)
    /\ inbuffer # <<>>
    /\ start_sids # <<>>
    /\ twilio_pc = "loop"

\* a transport message that is no JSON object, has no event, or is a 'start'
\* without stream id or a 'media' without track or without a payload that
\* can be decoded
IsMalformed(message) ==
    \/ ~HasEvent(message)
    \/ /\ message.data.event = "start"
       /\ ~("start" \in DOMAIN message.data /\ "streamSid" \in DOMAIN message.data.start)
    \/ /\ message.data.event = "media"
       /\ ~(/\ "media" \in DOMAIN message.data
            /\ "payload" \in DOMAIN message.data.media
            /\ "track" \in DOMAIN message.data.media
            /\ b64decode(message.data.media.payload).ok)

\* C24: an iteration of _twilio_receiver on a malformed message leaves the
\* loop running
C24_MalformedNotFatal ==
    [][(ReadsEnvelope /\ IsMalformed(twilio_message')) => twilio_pc' = "loop"]_vars

IsTrack(message, inbound) ==
    /\ HasEvent(message)
    /\ message.data.event = "media"
    /\ "media" \in DOMAIN message.data
    /\ "track" \in DOMAIN message.data.media
    /\ (message.data.media.track = "inbound") = inbound

\* C26: a step that changes inbuffer or puts a chunk on audio_queue is an
\* iteration of _twilio_receiver on a 'media' envelope of the inbound track;
\* an iteration on a 'media' envelope of another track changes neither
C26_OnlyInboundBuffered ==
    [][/\ (inbuffer' # inbuffer \/ enqueued' # enqueued) =>
             ReadsEnvelope /\ IsTrack(twilio_message', TRUE)
       /\ (ReadsEnvelope /\ IsTrack(twilio_message', FALSE)) =>
             /\ inbuffer' = inbuffer
             /\ audio_queue' = audio_queue
             /\ received' = received]_vars

\* a 'media' envelope of the outbound track was read after inbound audio was
\* buffered, and only the inbound audio is held
C26_Witness ==
    /\ twilio_count >= 2
    /\ IsTrack(twilio_message, FALSE)
    /\ inbuffer # <<>>
    /\ RCat(Flatten(enqueued), inbuffer) = received
    /\ twilio_pc = "loop"

\* the step is an iteration of _sts_receiver
ReadsBackend == Len(sts_read') = Len(sts_read) + 1

\* a backend text message that is no JSON object or whose type is neither
\* UserStartedSpeaking nor ConversationText
IsIgnorable(message) ==
    /\ message.frame = "text"
    /\ \/ message.json # "object"
       \/ Get(message.data, "type", "") \notin {"UserStartedSpeaking", "ConversationText"}

\* C25: an iteration of _sts_receiver on such a message sends nothing to the
\* transport, leaves conversation_history unchanged and the loop running
C25_UnknownBackendTextIgnored ==
    [][(ReadsBackend /\ IsIgnorable(sts_read'[Len(sts_read')])) =>
           /\ twilio_out' = twilio_out
           /\ conversation_history' = conversation_history
           /\ receiver_pc' = "loop"]_vars

\* a message that is no JSON was read, then audio was read and forwarded
C25_Witness ==
    /\ Len(sts_read) = 2
    /\ sts_read[1] = NotJson
    /\ IsBinary(sts_read[2])
    /\ Len(twilio_out) = 1 /\ IsMedia(twilio_out[1])

\* C27: at most one Settings message is sent to the backend, it is the
\* first message sent, and it has been sent once the relay loops run
C27_OneSettingsFirst ==
    /\ Len(SettingsSent) <= 1
    /\ sts_out # <<>> => IsSettings(sts_out[1])
    /\ \A i \in 2..Len(sts_out) : IsBinary(sts_out[i])
    /\ handler_pc \in {"relay", "closed"} => Len(SettingsSent) = 1

\* audio chunks were sent after the Settings message
C27_Witness ==
    /\ Len(sts_out) >= 3
    /\ IsSettings(sts_out[1])
    /\ IsBinary(sts_out[2]) /\ IsBinary(sts_out[3])

OwnBytes(bytes, c) == \A i \in 1..Len(bytes) : bytes[i].v = Voice(c)
Objects(c) ==
    {connections[c].agent, connections[c].audio_queue,
     connections[c].streamsid_queue, connections[c].inbuffer}

\* C28: two connections share no agent, queue or buffer, and the buffer,
\* queues, messages sent and stored turns of a connection hold only audio,
\* stream ids and turns of its own call
C28_CallsAreIsolated ==
    \A c \in Calls : IsOpen(c) =>
        LET k == connections[c]
        IN  /\ \A d \in Calls \ {c} : IsOpen(d) => Objects(c) \cap Objects(d) = {}
            /\ Cardinality(Objects(c)) = 4
            /\ OwnBytes(heap[k.inbuffer], c)
            /\ \A i \in 1..Len(heap[k.audio_queue]) : OwnBytes(heap[k.audio_queue][i], c)
            /\ \A i \in 1..Len(heap[k.streamsid_queue]) : heap[k.streamsid_queue][i] = Sid(c)
            /\ k.streamsid \in {"<unbound>", Sid(c)}
            /\ \A i \in 1..Len(k.sts_out) :
                  IsBinary(k.sts_out[i]) => OwnBytes(k.sts_out[i].bytes, c)
            /\ \A i \in 1..Len(k.twilio_out) :
                  /\ k.twilio_out[i].data.streamSid = Sid(c)
                  /\ IsMedia(k.twilio_out[i]) =>
                        k.twilio_out[i].data.media.payload = b64encode(Bytes(Voice(c), 160))
            /\ \A i \in 1..Len(heap[k.agent]) : heap[k.agent][i].content = CallText(c)

\* both connections are open and hold audio, and between them a chunk was
\* sent to a backend, a turn was stored and an envelope was sent back
C28_Witness ==
    /\ \A c \in Calls : IsOpen(c) /\ heap[connections[c].inbuffer] # <<>>
    /\ \E c \in Calls : Len(connections[c].sts_out) >= 2
    /\ \E c \in Calls : heap[connections[c].agent] # <<>>
    /\ \E c \in Calls : connections[c].twilio_out # <<>>

\* the model replied with a text, no error was raised
Replied == ~HasRaised(last_request.classify) /\ ~IsNone(last_request.classify.content)
Label == Upper(Strip(last_request.classify.content.str))

\* C29: classify_call reports an emergency when the trimmed, upper-cased reply
\* is EMERGENCY and none when it is NON_EMERGENCY, and its confidence is
\* "high" exactly when the reply is one of the two labels and nothing raised
C29_ClassifyLabels ==
    Classified =>
        /\ (Replied /\ Label = EMERGENCY) => classification_result.is_emergency = TRUE
        /\ (Replied /\ Label = NON_EMERGENCY) => classification_result.is_emergency = FALSE
        /\ classification_result.confidence = "high"
              <=> (Replied /\ Label \in {EMERGENCY, NON_EMERGENCY})

\* a reply that is the label only once trimmed and upper-cased was classified
\* as an emergency with high confidence
C29_Witness ==
    /\ Classified
    /\ Replied
    /\ last_request.classify.content.str # EMERGENCY
    /\ Label = EMERGENCY
    /\ classification_result.is_emergency
    /\ classification_result.confidence = "high"

Unset(var) == IsNone(environ[var])
Credentials == {"DEEPGRAM_API_KEY", "TWILIO_ACCOUNT_SID", "TWILIO_AUTH_TOKEN", "GROQ_API_KEY"}
Ended == startup.pc \in {"exited", "serving"}

\* C30: started through main, the process never serves with one of the four
\* credentials unset but ends with status 1; with the four set and the stream
\* URL unset, main warns and goes on to serve
C30_StartupFatalOnMissing ==
    /\ (Ended /\ \E var \in Credentials : Unset(var)) =>
          startup.pc = "exited" /\ startup.exit_status = 1
    /\ (Ended /\ startup.at = "main"
          /\ (\A var \in Credentials : ~Falsy(environ[var]))
          /\ Unset("VOICE_AGENT_WS_URL")) =>
          startup.pc = "serving" /\ startup.warned

\* main itself ended the process: the module was imported and exactly the
\* last of the variables it checks is unset
C30_Witness ==
    /\ startup.pc = "exited"
    /\ startup.at = "main"
    /\ startup.exit_status = 1
    /\ Unset("GROQ_API_KEY")
    /\ \A var \in Credentials \ {"GROQ_API_KEY"} : ~Falsy(environ[var])

TasksDone == sender_pc = "done" /\ receiver_pc = "done" /\ twilio_pc = "done"

\* C31: the handler closes the transport only in a step that starts with the
\* three relay tasks done, and once the handler has closed nothing is sent to
\* the transport and no step of the session follows
C31_ClosedIsTerminal ==
    /\ [][(twilio_state # "closed" /\ twilio_state' = "closed") => TasksDone]_vars
    /\ [][handler_pc = "closed" => (twilio_out' = twilio_out /\ UNCHANGED bridge_vars)]_vars

\* the handler has closed a transport that was still open and to which an
\* envelope had been sent
C31_Witness ==
    /\ handler_pc = "closed"
    /\ twilio_state = "closed"
    /\ TasksDone
    /\ twilio_out # <<>>

\* C32: after every envelope fewer than BUFFER_SIZE bytes are left in the
\* buffer, and the step that reads an envelope enqueues every full chunk the
\* buffer and the inbound audio of that envelope make up
C32_BufferBelowChunk ==
    /\ [](RLen(inbuffer) < BUFFER_SIZE)
    /\ [][ReadsEnvelope =>
             Len(enqueued') - Len(enqueued)
                 = (RLen(inbuffer) + RLen(received') - RLen(received)) \div BUFFER_SIZE]_vars

\* one envelope, the first, made two chunks and left a remainder
C32_Witness ==
    /\ twilio_count = 1
    /\ Len(enqueued) = 2
    /\ inbuffer # <<>>

IsStop(message) == HasEvent(message) /\ message.data.event = "stop"

\* C33: the iteration of _twilio_receiver that reads 'stop' ends the loop and
\* leaves the buffer and the queue as they are; once the loop has ended
\* nothing more is enqueued, so the bytes left in the buffer stay there and
\* the backend is sent full chunks only
C33_StopDoesNotFlush ==
    /\ [][(ReadsEnvelope /\ IsStop(twilio_message')) =>
             /\ twilio_pc' = "done"
             /\ inbuffer' = inbuffer
             /\ audio_queue' = audio_queue
             /\ enqueued' = enqueued]_vars
    /\ [][twilio_pc = "done" => (inbuffer' = inbuffer /\ enqueued' = enqueued)]_vars
    /\ [](\A i \in 1..Len(ChunksSent) : RLen(ChunksSent[i]) = BUFFER_SIZE)

\* 'stop' was read with bytes left in the buffer, which are still there
C33_Witness ==
    /\ twilio_count >= 1
    /\ IsStop(twilio_message)
    /\ twilio_pc = "done"
    /\ inbuffer # <<>>
    /\ RLen(inbuffer) < BUFFER_SIZE

LastRead == sts_read'[Len(sts_read')]

\* C34: an iteration of _sts_receiver that reads a barge-in while the
\* transport is not open sends nothing and leaves the loop running; one that
\* reads audio then ends the loop
C34_ClearFailureSwallowed ==
    [][(ReadsBackend /\ twilio_state # "open") =>
          /\ IsBargeIn(LastRead) => (receiver_pc' = "loop" /\ twilio_out' = twilio_out)
          /\ IsBinary(LastRead) => (receiver_pc' = "done" /\ twilio_out' = twilio_out)]_vars

\* a barge-in was read when the transport was gone, no 'clear' went out, and
\* the loop went on to record the turn that came after it
C34_Witness ==
    /\ Len(sts_read) = 2
    /\ IsBargeIn(sts_read[1])
    /\ twilio_state = "disconnected"
    /\ twilio_out = <<>>
    /\ receiver_pc = "loop"
    /\ conversation_history # <<>>

\* a request of /webhook/process-speech whose speech result is missing,
\* empty or only whitespace
BlankSpeech(request) ==
    /\ "endpoint" \notin DOMAIN request
    /\ ~HasRaised(request.form)
    /\ Strip(Get(request.form, "SpeechResult", <<>>)) = <<>>

C36_PathsAreServed ==
    \A i \in 1..Len(response) :
        /\ response[i].verb = "Redirect" => response[i].url \in PostRoutes
        /\ response[i].verb = "Gather" => response[i].config.action \in PostRoutes

\* C37: when everything succeeded the call is dialed to the dispatcher
\* exactly when is_emergency is true, whatever the criticality, and the row
\* stored has severity 4 exactly when the criticality returned is CRITICAL,
\* whatever the classification
C37_RoutingIgnoresSeverity ==
    Succeeded =>
        /\ DialsDispatcher <=> classification_result.is_emergency
        /\ ConnectsAgent <=> ~classification_result.is_emergency
        /\ LastRow.severity = 4 <=> CriticalityReturned = CRITICAL

\* a call stored with severity 4 was connected to the voice agent
C37_Witness ==
    /\ Succeeded
    /\ LastRow.severity = 4
    /\ ConnectsAgent
    /\ ~HasVerb(response, "Dial")

\* a ConversationText event with a content that is not empty
HasContent(message) ==
    /\ IsConversationText(message)
    /\ Get(message.data, "content", <<>>) # <<>>

\* C38: the stored turns are those of the events read that have a non-empty
\* content, one each, so an event without content or with an empty one adds
\* nothing; a turn has the role of its event, 'assistant' when the event has
\* none, and a content of markup only is stored as the empty text
C38_PartialTurns ==
    LET turns == SelectSeq(sts_read, HasContent)
    IN  /\ Len(conversation_history) = Len(turns)
        /\ \A i \in 1..Len(turns) :
              /\ conversation_history[i].role =
                    IF "role" \in DOMAIN turns[i].data THEN turns[i].data.role ELSE "assistant"
              /\ turns[i].data.content = <<"*", "*">> => conversation_history[i].content = <<>>

\* a turn of markup only and a turn without role were read and stored
C38_Witness ==
    /\ Len(sts_read) = 2
    /\ conversation_history = <<[role |-> "user", content |-> <<>>],
                                [role |-> "assistant", content |-> <<"o", "k">>]>>

Polls == stream_pc = "loop" /\ Len(stream_events') = Len(stream_events) + 1
Yielded == stream_events'[Len(stream_events')]
Unseen == {id \in Range(db_rows) : id > last_seen_id}

\* C39: last_seen_id never decreases; a poll yields 'new_callers' with the
\* rows whose id is above the last_seen_id it started with, a 'heartbeat'
\* when there is none, or an 'error', which leaves last_seen_id and the loop
\* as they were; no id is in two 'new_callers' events
C39_StreamDeliversOnce ==
    /\ [][last_seen_id' >= last_seen_id]_vars
    /\ [][Polls =>
             /\ stream_pc' = "loop"
             /\ Yielded.type \in {"new_callers", "heartbeat", "error"}
             /\ Yielded.type = "new_callers" => (Unseen # {} /\ Range(Yielded.callers) = Unseen)
             /\ Yielded.type = "heartbeat" => (Unseen = {} /\ last_seen_id' = last_seen_id)
             /\ Yielded.type = "error" => last_seen_id' = last_seen_id]_vars
    /\ [](\A i, j \in 1..Len(stream_events) :
              (/\ i < j
               /\ stream_events[i].type = "new_callers"
               /\ stream_events[j].type = "new_callers") =>
                  Range(stream_events[i].callers) \cap Range(stream_events[j].callers) = {})

\* two 'new_callers' events were yielded with a failed poll between them
C39_Witness ==
    /\ Len(stream_events) = 3
    /\ stream_events[1].type = "new_callers"
    /\ stream_events[2].type = "error"
    /\ stream_events[3].type = "new_callers"

====
